---- MODULE Spec2Model ----
(***************************************************************************)
(* The timeline edit engine of the editor store (src/src/stores/           *)
(* editorStore.ts) and the timeline's clip drag handlers                   *)
(* (src/src/components/Timeline.vue) as a state machine.                   *)
(*                                                                         *)
(* Times are fixed-point: one unit is 1/TicksPerSecond of a second, so the *)
(* source's 0.1 s minimum clip length is MinClipTicks units.  Ids are      *)
(* positive integers handed out by nextId (generateId never repeats), and  *)
(* Undef stands for JavaScript's undefined (and for null): a property that *)
(* is absent reads as Undef, and `a || b` on numbers takes b when a is 0   *)
(* or Undef.  A clip is a function from property names to values, so that  *)
(* object spread, Object.assign and the JSON round trip act on it as they  *)
(* do in the source.                                                       *)
(***************************************************************************)
EXTENDS Integers, Sequences, FiniteSets, TLC

VARIABLES
    tracks,             \* Track[]: [id, type, order, isLocked, clips]
    selectedClipIds,    \* string[]
    selectedTrackId,    \* string | null
    clipboard,          \* Clip[]
    history,            \* HistoryState[]: [tracks, selectedClipIds]
    historyIndex,       \* -1 when nothing is recorded
    currentTime,        \* playhead
    duration,           \* media duration
    projectDuration,
    videoElement,       \* TRUE once a media element is attached
    videoFile,          \* File | null: the file of the last setVideoFile
    videoUrl,           \* '' (Undef) or the object URL made for videoFile
    isPlaying,
    media,              \* the attached element: [paused, ended, currentTime]
    objectUrls,         \* object URLs handed out so far by URL.createObjectURL
    endedQueued,        \* an ended event of a media element awaits its handler
    superseded,         \* the src of every earlier media element that was replaced
                        \* while awaiting loadedmetadata and still awaits it
    timelineZoom,
    isSnappingEnabled,
    nextId,             \* the next id generateId hands out
    draggingClip,       \* Timeline.vue: the clip drag in progress, or NoDrag
    listeners,          \* Timeline.vue: the drag's document listeners are registered
    gesture,            \* the last clip drag: the clip as it was at pointer-down
    timelineMounted,    \* Timeline.vue is mounted
    animationFrameId,   \* Timeline.vue: null (Undef) or the id of its latest frame request
    pendingFrames,      \* Timeline.vue: frame requests of updateTime not yet run or cancelled
    isDraggingPlayhead, \* Timeline.vue
    canvasMounted,      \* the canvas component is mounted
    isResizing,         \* canvas component
    isRotating,         \* canvas component
    textObjects,        \* canvas: the text layer of each overlay id,
                        \* [visible, alpha, x, y, scale, text]
    lastVisibilityUpdate, \* canvas: 0, or 1 once the throttled watcher has run
    videoSprite,        \* canvas: the video layer, [present, scale, x, y, rotation,
                        \* alpha, flipX, flipY, filters]
    lastPass,           \* the pass that last wrote textObjects since the model or
                        \* currentTime changed: "animation", "visibility" or "none"
    documentListeners,  \* gestures whose mousemove/mouseup pair is registered on document,
                        \* the clip drag apart: a subset of {"ruler", "resize", "rotate"}
    scenario,           \* which specification is running (fixed by its Init)
    steps,              \* operations performed so far
    lastOp              \* the operation that produced this state, with its inputs

storeVars == <<tracks, selectedClipIds, selectedTrackId, clipboard, history,
               historyIndex, currentTime, duration, projectDuration,
               videoElement, timelineZoom, isSnappingEnabled, nextId,
               videoFile, videoUrl, isPlaying, media, objectUrls,
               endedQueued, superseded>>
timelineVars == <<timelineMounted, animationFrameId, pendingFrames>>
gestureVars == <<isDraggingPlayhead, canvasMounted, isResizing, isRotating, documentListeners>>
canvasVars == <<textObjects, lastVisibilityUpdate, lastPass, videoSprite>>
vars == <<storeVars, draggingClip, listeners, gesture, timelineVars, gestureVars,
          canvasVars, scenario, steps, lastOp>>

---------------------------------------------------------------------------
\* Bounds of the model.
MaxSteps == 4            \* operations of a run of Spec
MaxClipboardSteps == 5   \* operations of a run of SpecClipboard
MaxDragSteps == 5        \* operations of a run of SpecDrag
MaxHistSteps == 3        \* operations of a run of SpecHist once the history is full
MaxEditSteps == 4        \* operations of a run of SpecEdit
MaxStaleSteps == 4       \* operations of a run of SpecStale
MaxMediaSteps == 6       \* operations of a run of SpecMedia
MaxPlaybackSteps == 6    \* operations of a run of SpecPlayback
MaxGestureSteps == 5     \* operations of a run of SpecGesture
MaxRenderSteps == 4      \* operations of a run of SpecRender
MaxFrameSteps == 5       \* operations of a run of SpecFrame
MaxLayoutSteps == 6      \* operations of a run of SpecLayout
MaxSnapSteps == 5        \* operations of a run of SpecSnap
MaxReloadSteps == 5      \* operations of a run of SpecReload
MaxTracks == 2
MaxClips == 3

\* Fixed-point scale of the time fields.
TicksPerSecond == 20
MinClipTicks == TicksPerSecond \div 10         \* 0.1 s
DefaultClipTicks == 5 * TicksPerSecond         \* addClip: 5 s
TextClipTicks == 3 * TicksPerSecond            \* addText: 3 s

\* Program constants.
maxHistorySize == 50
snapThreshold == 10
SNAP_PIXELS_PER_SECOND == 100
PIXELS_PER_SECOND_BASE == 80

Undef == 0
TrackTypes == {"video", "audio", "text"}

---------------------------------------------------------------------------
\* JavaScript object and array primitives.

Get(o, k) == IF k \in DOMAIN o THEN o[k] ELSE Undef

OrElse(a, b) == IF a = Undef THEN b ELSE a

Assign(o, u) ==
    [k \in DOMAIN o \cup DOMAIN u |-> IF k \in DOMAIN u THEN u[k] ELSE o[k]]

Max(a, b) == IF a >= b THEN a ELSE b
Min(a, b) == IF a <= b THEN a ELSE b

IndexOf(seq, x) ==
    IF \E i \in 1..Len(seq) : seq[i] = x
    THEN CHOOSE i \in 1..Len(seq) : seq[i] = x /\ \A j \in 1..(i - 1) : seq[j] # x
    ELSE 0

Includes(seq, x) == \E i \in 1..Len(seq) : seq[i] = x

\* An array written as a function over 1..n, as the tuple it is.
AsArray(f) == <<>> \o f

RemoveAt(seq, i) == SubSeq(seq, 1, i - 1) \o SubSeq(seq, i + 1, Len(seq))

InsertAt(seq, i, x) == SubSeq(seq, 1, i - 1) \o <<x>> \o SubSeq(seq, i, Len(seq))

\* indexOf + splice(idx, 1): drops the first occurrence, if any.
RemoveFirst(seq, x) == IF IndexOf(seq, x) = 0 THEN seq ELSE RemoveAt(seq, IndexOf(seq, x))

\* JSON.parse(JSON.stringify(clip)): a property whose value is undefined is dropped.
JSONClip(c) == [k \in {p \in DOMAIN c : ~(p = "id" /\ c[p] = Undef)} |-> c[k]]

JSONClips(cs) == AsArray([j \in 1..Len(cs) |-> JSONClip(cs[j])])

JSONTracks(ts) == AsArray([i \in 1..Len(ts) |-> [ts[i] EXCEPT !.clips = JSONClips(ts[i].clips)]])

ClipId(c) == Get(c, "id")

---------------------------------------------------------------------------
\* The store as a value: the operations below map a store to a store.

Cur ==
    [tracks |-> tracks, selectedClipIds |-> selectedClipIds,
     selectedTrackId |-> selectedTrackId, clipboard |-> clipboard,
     history |-> history, historyIndex |-> historyIndex,
     currentTime |-> currentTime, duration |-> duration,
     projectDuration |-> projectDuration, videoElement |-> videoElement,
     timelineZoom |-> timelineZoom, isSnappingEnabled |-> isSnappingEnabled,
     nextId |-> nextId, videoFile |-> videoFile, videoUrl |-> videoUrl,
     isPlaying |-> isPlaying, media |-> media, objectUrls |-> objectUrls,
     endedQueued |-> endedQueued, superseded |-> superseded]

Commit(s) ==
    /\ tracks' = s.tracks
    /\ selectedClipIds' = s.selectedClipIds
    /\ selectedTrackId' = s.selectedTrackId
    /\ clipboard' = s.clipboard
    /\ history' = s.history
    /\ historyIndex' = s.historyIndex
    /\ currentTime' = s.currentTime
    /\ duration' = s.duration
    /\ projectDuration' = s.projectDuration
    /\ videoElement' = s.videoElement
    /\ timelineZoom' = s.timelineZoom
    /\ isSnappingEnabled' = s.isSnappingEnabled
    /\ nextId' = s.nextId
    /\ videoFile' = s.videoFile
    /\ videoUrl' = s.videoUrl
    /\ isPlaying' = s.isPlaying
    /\ media' = s.media
    /\ objectUrls' = s.objectUrls
    /\ endedQueued' = s.endedQueued
    /\ superseded' = s.superseded

\* A media element as document.createElement('video') returns it.
NewMedia == [paused |-> TRUE, ended |-> FALSE, currentTime |-> 0, duration |-> Undef]

FreshStore ==
    [tracks |-> <<>>, selectedClipIds |-> <<>>, selectedTrackId |-> Undef,
     clipboard |-> <<>>, history |-> <<>>, historyIndex |-> -1,
     currentTime |-> 0, duration |-> 0, projectDuration |-> 0,
     videoElement |-> FALSE, timelineZoom |-> <<1, 1>>,
     isSnappingEnabled |-> TRUE, nextId |-> 1,
     videoFile |-> Undef, videoUrl |-> Undef, isPlaying |-> FALSE,
     media |-> NewMedia, objectUrls |-> 0, endedQueued |-> FALSE,
     superseded |-> {}]

\* All clips of all tracks, in track order then clip order.
RECURSIVE AllClipsFrom(_, _)
AllClipsFrom(ts, i) ==
    IF i > Len(ts) THEN <<>> ELSE ts[i].clips \o AllClipsFrom(ts, i + 1)

AllClips(ts) == AllClipsFrom(ts, 1)

\* The index of the first track holding a clip with this id, or 0.
TrackIndexOfClip(ts, clipId) ==
    IF \E i \in 1..Len(ts) : \E j \in 1..Len(ts[i].clips) : ClipId(ts[i].clips[j]) = clipId
    THEN CHOOSE i \in 1..Len(ts) :
            /\ \E j \in 1..Len(ts[i].clips) : ClipId(ts[i].clips[j]) = clipId
            /\ \A h \in 1..(i - 1) :
                  \A j \in 1..Len(ts[h].clips) : ClipId(ts[h].clips[j]) # clipId
    ELSE 0

\* findIndex(c => c.id === clipId) in one clip list, or 0.
ClipIndexIn(cs, clipId) ==
    IF \E j \in 1..Len(cs) : ClipId(cs[j]) = clipId
    THEN CHOOSE j \in 1..Len(cs) :
            ClipId(cs[j]) = clipId /\ \A h \in 1..(j - 1) : ClipId(cs[h]) # clipId
    ELSE 0

getTrackByClipId(s, clipId) == TrackIndexOfClip(s.tracks, clipId)

\* <<track index, clip index>> of the clip getClipById returns, <<0, 0>> for null.
getClipById(s, clipId) ==
    LET ti == TrackIndexOfClip(s.tracks, clipId)
    IN  IF ti = 0 THEN <<0, 0>> ELSE <<ti, ClipIndexIn(s.tracks[ti].clips, clipId)>>

\* tracks.find(t => t.id === trackId) as an index, or 0.
TrackIndexById(ts, trackId) ==
    IF \E i \in 1..Len(ts) : ts[i].id = trackId
    THEN CHOOSE i \in 1..Len(ts) : ts[i].id = trackId /\ \A h \in 1..(i - 1) : ts[h].id # trackId
    ELSE 0

\* tracks.find(t => t.type === type) as an index, or 0.
TrackIndexByType(ts, type) ==
    IF \E i \in 1..Len(ts) : ts[i].type = type
    THEN CHOOSE i \in 1..Len(ts) : ts[i].type = type /\ \A h \in 1..(i - 1) : ts[h].type # type
    ELSE 0

RECURSIVE MaxEndFrom(_, _)
MaxEndFrom(cs, j) ==
    IF j > Len(cs) THEN 0
    ELSE LET rest == MaxEndFrom(cs, j + 1)
         IN  IF cs[j].endTime > rest THEN cs[j].endTime ELSE rest

updateProjectDuration(s) ==
    LET maxEnd == MaxEndFrom(AllClips(s.tracks), 1)
    IN  [s EXCEPT !.projectDuration = maxEnd,
                  !.duration = IF maxEnd > s.duration THEN maxEnd ELSE s.duration]

---------------------------------------------------------------------------
\* History (undo/redo).

\* saveHistory without the slice that drops the entries after the cursor.
saveHistoryKeepingForward(s) ==
    LET pushed == Append(s.history, [tracks |-> JSONTracks(s.tracks),
                                     selectedClipIds |-> s.selectedClipIds])
    IN  IF Len(pushed) > maxHistorySize
        THEN [s EXCEPT !.history = Tail(pushed)]
        ELSE [s EXCEPT !.history = pushed, !.historyIndex = s.historyIndex + 1]

\* saveHistory without the shift at capacity.
saveHistoryNeverEvicting(s) ==
    LET kept == SubSeq(s.history, 1, s.historyIndex + 1)
        pushed == Append(kept, [tracks |-> JSONTracks(s.tracks),
                                selectedClipIds |-> s.selectedClipIds])
    IN  [s EXCEPT !.history = pushed, !.historyIndex = s.historyIndex + 1]

saveHistory(s) ==
    LET kept == SubSeq(s.history, 1, s.historyIndex + 1)
        pushed == Append(kept, [tracks |-> JSONTracks(s.tracks),
                                selectedClipIds |-> s.selectedClipIds])
    IN  IF Len(pushed) > maxHistorySize
        THEN [s EXCEPT !.history = Tail(pushed)]
        ELSE [s EXCEPT !.history = pushed, !.historyIndex = s.historyIndex + 1]

undo(s) ==
    IF s.historyIndex > 0
    THEN LET state == s.history[s.historyIndex]      \* entry historyIndex - 1, 0-based
         IN  [s EXCEPT !.historyIndex = s.historyIndex - 1,
                       !.tracks = JSONTracks(state.tracks),
                       !.selectedClipIds = state.selectedClipIds]
    ELSE s

\* A redo that restores the newest entry again when there is nothing to redo.
redoAtTail(s) ==
    IF s.historyIndex < Len(s.history) - 1
    THEN LET state == s.history[s.historyIndex + 2]
         IN  [s EXCEPT !.historyIndex = s.historyIndex + 1,
                       !.tracks = JSONTracks(state.tracks),
                       !.selectedClipIds = state.selectedClipIds]
    ELSE IF s.historyIndex >= 0
    THEN LET state == s.history[s.historyIndex + 1]
         IN  [s EXCEPT !.tracks = JSONTracks(state.tracks),
                       !.selectedClipIds = state.selectedClipIds]
    ELSE s

redo(s) ==
    IF s.historyIndex < Len(s.history) - 1
    THEN LET state == s.history[s.historyIndex + 2]  \* entry historyIndex + 1, 0-based
         IN  [s EXCEPT !.historyIndex = s.historyIndex + 1,
                       !.tracks = JSONTracks(state.tracks),
                       !.selectedClipIds = state.selectedClipIds]
    ELSE s

---------------------------------------------------------------------------
\* Track actions.

addTrack(s, type) ==
    LET newTrack == [id |-> s.nextId, type |-> type, order |-> Len(s.tracks),
                     isLocked |-> FALSE, clips |-> <<>>]
    IN  saveHistory([s EXCEPT !.tracks = Append(s.tracks, newTrack),
                              !.nextId = s.nextId + 1])

RECURSIVE DeselectClipsOf(_, _, _)
DeselectClipsOf(sel, cs, j) ==
    IF j > Len(cs) THEN sel
    ELSE DeselectClipsOf(RemoveFirst(sel, ClipId(cs[j])), cs, j + 1)

removeTrack(s, trackId) ==
    LET index == TrackIndexById(s.tracks, trackId)
    IN  IF index # 0
        THEN saveHistory([s EXCEPT
                !.selectedClipIds = DeselectClipsOf(s.selectedClipIds, s.tracks[index].clips, 1),
                !.tracks = RemoveAt(s.tracks, index)])
        ELSE s

updateTrack(s, trackId, updates) ==
    LET index == TrackIndexById(s.tracks, trackId)
    IN  IF index # 0
        THEN [s EXCEPT !.tracks[index] = Assign(s.tracks[index], updates)]
        ELSE s

\* fromIndex and toIndex are 0-based, as in the source.
reorderTracks(s, fromIndex, toIndex) ==
    LET track == s.tracks[fromIndex + 1]
        moved == InsertAt(RemoveAt(s.tracks, fromIndex + 1), toIndex + 1, track)
    IN  saveHistory([s EXCEPT !.tracks = AsArray([i \in 1..Len(moved) |-> [moved[i] EXCEPT !.order = i - 1]])])

---------------------------------------------------------------------------
\* Clip actions.

\* The clip object addClip builds: baseClip, the defaults of the track's type,
\* then every property of clipData spread over them.
NewClip(s, ti, clipData) ==
    LET track == s.tracks[ti]
        baseClip == [id |-> s.nextId,
                     trackId |-> track.id,
                     startTime |-> OrElse(Get(clipData, "startTime"), s.currentTime),
                     endTime |-> OrElse(Get(clipData, "endTime"), s.currentTime + DefaultClipTicks),
                     sourceStartTime |-> OrElse(Get(clipData, "sourceStartTime"), 0),
                     duration |-> OrElse(Get(clipData, "duration"), DefaultClipTicks),
                     isSelected |-> FALSE]
        typed == IF track.type = "text"
                 THEN Assign(baseClip, [type |-> "text"])
                 ELSE Assign(baseClip, [type |-> track.type,
                                        src |-> OrElse(Get(clipData, "src"), 0),
                                        originalDuration |-> OrElse(Get(clipData, "originalDuration"), 0)])
    IN  Assign(typed, clipData)

\* What addClip returns: null without the track, the new clip otherwise.
addClipReturns(s, trackId) ==
    IF TrackIndexById(s.tracks, trackId) = 0 THEN "null" ELSE "value"

addClip(s, trackId, clipData) ==
    LET ti == TrackIndexById(s.tracks, trackId)
    IN  IF ti = 0 THEN s
        ELSE saveHistory(updateProjectDuration(
                [s EXCEPT !.tracks[ti].clips = Append(@, NewClip(s, ti, clipData)),
                          !.nextId = s.nextId + 1]))

\* removeClip with the snapshot taken whether or not a clip was found.
removeClipAlwaysRecording(s, clipId) ==
    LET ti == TrackIndexOfClip(s.tracks, clipId)
    IN  IF ti = 0 THEN saveHistory(s)
        ELSE saveHistory(updateProjectDuration(
                [s EXCEPT !.tracks[ti].clips = RemoveAt(@, ClipIndexIn(@, clipId)),
                          !.selectedClipIds = RemoveFirst(@, clipId)]))

removeClip(s, clipId) ==
    LET ti == TrackIndexOfClip(s.tracks, clipId)
    IN  IF ti = 0 THEN s
        ELSE saveHistory(updateProjectDuration(
                [s EXCEPT !.tracks[ti].clips = RemoveAt(@, ClipIndexIn(@, clipId)),
                          !.selectedClipIds = RemoveFirst(@, clipId)]))

\* updateClip with a snapshot taken after the update.
updateClipRecording(s, clipId, updates) ==
    LET loc == getClipById(s, clipId)
    IN  IF loc[1] = 0 THEN s
        ELSE saveHistory(updateProjectDuration(
                [s EXCEPT !.tracks[loc[1]].clips[loc[2]] = Assign(@, updates)]))

updateClip(s, clipId, updates) ==
    LET loc == getClipById(s, clipId)
    IN  IF loc[1] = 0 THEN s
        ELSE updateProjectDuration(
                [s EXCEPT !.tracks[loc[1]].clips[loc[2]] = Assign(@, updates)])

\* The second clip with the source offset of the first left as it was.
SecondClipSameSource(first, newId, splitTime, originalEndTime, firstDuration) ==
    Assign(JSONClip(first),
           [id |-> newId,
            startTime |-> splitTime,
            endTime |-> originalEndTime,
            duration |-> originalEndTime - splitTime,
            isSelected |-> FALSE])

\* The second clip of a split: a JSON copy of the (already shortened) original
\* with a new id, the later time range and the selection flag cleared.
SecondClip(first, newId, splitTime, originalEndTime, firstDuration) ==
    Assign(JSONClip(first),
           [id |-> newId,
            startTime |-> splitTime,
            endTime |-> originalEndTime,
            duration |-> originalEndTime - splitTime,
            sourceStartTime |-> OrElse(Get(first, "sourceStartTime"), 0) + firstDuration,
            isSelected |-> FALSE])

\* What splitClip returns: null without the clip or with a split time at or
\* outside its bounds, the pair of clips otherwise.
splitClipReturns(s, clipId, splitTime) ==
    LET loc == getClipById(s, clipId)
    IN  IF loc[1] = 0 THEN "null"
        ELSE LET clip == s.tracks[loc[1]].clips[loc[2]]
             IN  IF splitTime <= clip.startTime \/ splitTime >= clip.endTime
                 THEN "null" ELSE "value"

\* A split that also accepts a split time on the clip's bounds.
splitClipAtBounds(s, clipId, splitTime) ==
    LET loc == getClipById(s, clipId)
    IN  IF loc[1] = 0 THEN s
        ELSE LET clip == s.tracks[loc[1]].clips[loc[2]]
             IN  IF splitTime < clip.startTime \/ splitTime > clip.endTime THEN s
                 ELSE LET firstDuration == splitTime - clip.startTime
                          first == Assign(clip, [endTime |-> splitTime, duration |-> firstDuration])
                          second == SecondClip(first, s.nextId, splitTime, clip.endTime, firstDuration)
                      IN  saveHistory(
                            [s EXCEPT !.tracks[loc[1]].clips =
                                          InsertAt([@ EXCEPT ![loc[2]] = first], loc[2] + 1, second),
                                      !.nextId = s.nextId + 1])

splitClip(s, clipId, splitTime) ==
    LET loc == getClipById(s, clipId)
    IN  IF loc[1] = 0 THEN s
        ELSE LET clip == s.tracks[loc[1]].clips[loc[2]]
             IN  IF splitTime <= clip.startTime \/ splitTime >= clip.endTime THEN s
                 ELSE LET firstDuration == splitTime - clip.startTime
                          first == Assign(clip, [endTime |-> splitTime, duration |-> firstDuration])
                          second == SecondClip(first, s.nextId, splitTime, clip.endTime, firstDuration)
                      IN  saveHistory(
                            [s EXCEPT !.tracks[loc[1]].clips =
                                          InsertAt([@ EXCEPT ![loc[2]] = first], loc[2] + 1, second),
                                      !.nextId = s.nextId + 1])

\* selectedClips: every clip whose id is in selectedClipIds, in track order.
selectedClips(s) ==
    LET Chosen(c) == Includes(s.selectedClipIds, ClipId(c))
    IN  SelectSeq(AllClips(s.tracks), Chosen)

\* selectedClip: selectedClips[0] || null.
selectedClip(s) == IF selectedClips(s) = <<>> THEN Undef ELSE selectedClips(s)[1]

RECURSIVE SplitEach(_, _, _, _)
SplitEach(s, cs, j, time) ==
    IF j > Len(cs) THEN s
    ELSE SplitEach(splitClip(s, ClipId(cs[j]), time), cs, j + 1, time)

splitSelectedClipsAtPlayhead(s) ==
    LET Inside(c) == s.currentTime > c.startTime /\ s.currentTime < c.endTime
        clipsToSplit == SelectSeq(selectedClips(s), Inside)
    IN  SplitEach(s, clipsToSplit, 1, s.currentTime)

\* Snap points in enumeration order: 0, the playhead, then the start and end of
\* every clip whose id differs from excludeClipId.
RECURSIVE ClipSnapPoints(_, _, _)
ClipSnapPoints(cs, j, excludeClipId) ==
    IF j > Len(cs) THEN <<>>
    ELSE (IF ClipId(cs[j]) # excludeClipId THEN <<cs[j].startTime, cs[j].endTime>> ELSE <<>>)
         \o ClipSnapPoints(cs, j + 1, excludeClipId)

Abs(x) == IF x < 0 THEN -x ELSE x

\* A threshold that leaves the zoom out.
\* |time - point| < snapThreshold / (100 * timelineZoom) seconds, in ticks and
\* without division; timelineZoom is the fraction <<numerator, denominator>>.
WithinSnapAtZoomOne(s, time, point) ==
    Abs(time - point) * SNAP_PIXELS_PER_SECOND < snapThreshold * TicksPerSecond

WithinSnap(s, time, point) ==
    Abs(time - point) * SNAP_PIXELS_PER_SECOND * s.timelineZoom[1]
        < snapThreshold * TicksPerSecond * s.timelineZoom[2]

RECURSIVE FirstSnap(_, _, _, _)
FirstSnap(s, points, i, time) ==
    IF i > Len(points) THEN time
    ELSE IF WithinSnap(s, time, points[i]) THEN points[i]
    ELSE FirstSnap(s, points, i + 1, time)

\* The snap point earliest in time among those within the threshold.
getSnappedTimeAscending(s, time, excludeClipId) ==
    LET points == <<0, s.currentTime>> \o ClipSnapPoints(AllClips(s.tracks), 1, excludeClipId)
        near == {points[i] : i \in {k \in 1..Len(points) : WithinSnap(s, time, points[k])}}
    IN  IF near = {} THEN time
        ELSE CHOOSE pt \in near : \A other \in near : pt <= other

getSnappedTime(s, time, excludeClipId) ==
    FirstSnap(s, <<0, s.currentTime>> \o ClipSnapPoints(AllClips(s.tracks), 1, excludeClipId), 1, time)

\* A move that keeps the end where it was.
moveClipKeepingEnd(s, clipId, newStartTime, newTrackId) ==
    LET loc == getClipById(s, clipId)
    IN  IF loc[1] = 0 THEN s
        ELSE updateProjectDuration(
               [s EXCEPT !.tracks[loc[1]].clips[loc[2]].startTime = Max(0, newStartTime)])

\* newTrackId is Undef when the call passes no destination track.
moveClip(s, clipId, newStartTime, newTrackId) ==
    LET loc == getClipById(s, clipId)
    IN  IF loc[1] = 0 THEN s
        ELSE LET currentTrack == s.tracks[loc[1]]
                 clip == currentTrack.clips[loc[2]]
                 clipDuration == clip.endTime - clip.startTime
                 snapped == IF s.isSnappingEnabled
                            THEN getSnappedTime(s, newStartTime, clipId)
                            ELSE newStartTime
                 start == Max(0, snapped)
                 timed == Assign(clip, [startTime |-> start, endTime |-> start + clipDuration])
                 ni == TrackIndexById(s.tracks, newTrackId)
                 reparent == /\ newTrackId # Undef
                             /\ newTrackId # currentTrack.id
                             /\ ni # 0
                             /\ s.tracks[ni].type = currentTrack.type
             IN  updateProjectDuration(
                   IF reparent
                   THEN [s EXCEPT !.tracks[loc[1]].clips = RemoveAt(@, loc[2]),
                                  !.tracks[ni].clips = Append(@, Assign(timed, [trackId |-> newTrackId]))]
                   ELSE [s EXCEPT !.tracks[loc[1]].clips[loc[2]] = timed])

\* A trim of the start that leaves the source offset where it was.
trimClipStartKeepingSource(s, clipId, newStartTime) ==
    LET loc == getClipById(s, clipId)
    IN  IF loc[1] = 0 THEN s
        ELSE LET clip == s.tracks[loc[1]].clips[loc[2]]
                 start == Max(0, Min(clip.endTime - MinClipTicks, newStartTime))
             IN  [s EXCEPT !.tracks[loc[1]].clips[loc[2]] =
                     Assign(clip, [startTime |-> start, duration |-> clip.endTime - start])]

trimClipStart(s, clipId, newStartTime) ==
    LET loc == getClipById(s, clipId)
    IN  IF loc[1] = 0 THEN s
        ELSE LET clip == s.tracks[loc[1]].clips[loc[2]]
                 maxStart == clip.endTime - MinClipTicks
                 start == Max(0, Min(maxStart, newStartTime))
                 deltaTime == start - clip.startTime
             IN  [s EXCEPT !.tracks[loc[1]].clips[loc[2]] =
                     Assign(clip, [startTime |-> start,
                                   sourceStartTime |-> OrElse(Get(clip, "sourceStartTime"), 0) + deltaTime,
                                   duration |-> clip.endTime - start])]

\* A trim of the end without the minimum length.
trimClipEndUnclamped(s, clipId, newEndTime) ==
    LET loc == getClipById(s, clipId)
    IN  IF loc[1] = 0 THEN s
        ELSE LET clip == s.tracks[loc[1]].clips[loc[2]]
             IN  updateProjectDuration(
                   [s EXCEPT !.tracks[loc[1]].clips[loc[2]] =
                       Assign(clip, [endTime |-> newEndTime,
                                     duration |-> newEndTime - clip.startTime])])

trimClipEnd(s, clipId, newEndTime) ==
    LET loc == getClipById(s, clipId)
    IN  IF loc[1] = 0 THEN s
        ELSE LET clip == s.tracks[loc[1]].clips[loc[2]]
                 end == Max(clip.startTime + MinClipTicks, newEndTime)
             IN  updateProjectDuration(
                   [s EXCEPT !.tracks[loc[1]].clips[loc[2]] =
                       Assign(clip, [endTime |-> end, duration |-> end - clip.startTime])])

---------------------------------------------------------------------------
\* Selection.

ClearFlags(ts) ==
    AsArray([i \in 1..Len(ts) |->
        [ts[i] EXCEPT !.clips = AsArray([j \in 1..Len(ts[i].clips) |->
                                    Assign(ts[i].clips[j], [isSelected |-> FALSE])])]])

selectClip(s, clipId, addToSelection) ==
    LET cleared == IF addToSelection THEN s
                   ELSE [s EXCEPT !.tracks = ClearFlags(s.tracks), !.selectedClipIds = <<>>]
        loc == getClipById(cleared, clipId)
    IN  IF loc[1] = 0 THEN cleared
        ELSE [cleared EXCEPT
                !.tracks[loc[1]].clips[loc[2]] = Assign(@, [isSelected |-> TRUE]),
                !.selectedClipIds = IF Includes(cleared.selectedClipIds, clipId)
                                    THEN @ ELSE Append(@, clipId)]

deselectClip(s, clipId) ==
    LET loc == getClipById(s, clipId)
    IN  IF loc[1] = 0 THEN s
        ELSE [s EXCEPT !.tracks[loc[1]].clips[loc[2]] = Assign(@, [isSelected |-> FALSE]),
                       !.selectedClipIds = RemoveFirst(@, clipId)]

\* A deselectAll that empties the id list and leaves the clips' flags.
deselectAllKeepingFlags(s) ==
    [s EXCEPT !.selectedClipIds = <<>>, !.selectedTrackId = Undef]

deselectAll(s) ==
    [s EXCEPT !.tracks = ClearFlags(s.tracks), !.selectedClipIds = <<>>,
              !.selectedTrackId = Undef]

RECURSIVE PushMissing(_, _, _)
PushMissing(sel, cs, j) ==
    IF j > Len(cs) THEN sel
    ELSE PushMissing(IF Includes(sel, ClipId(cs[j])) THEN sel ELSE Append(sel, ClipId(cs[j])),
                     cs, j + 1)

selectAllClips(s) ==
    [s EXCEPT !.tracks = AsArray([i \in 1..Len(s.tracks) |->
                            [s.tracks[i] EXCEPT !.clips = AsArray([j \in 1..Len(s.tracks[i].clips) |->
                                Assign(s.tracks[i].clips[j], [isSelected |-> TRUE])])]]),
              !.selectedClipIds = PushMissing(s.selectedClipIds, AllClips(s.tracks), 1)]

---------------------------------------------------------------------------
\* Clipboard.

copySelectedClips(s) == [s EXCEPT !.clipboard = JSONClips(selectedClips(s))]

RECURSIVE RemoveEach(_, _, _)
RemoveEach(s, ids, i) ==
    IF i > Len(ids) THEN s ELSE RemoveEach(removeClip(s, ids[i]), ids, i + 1)

deleteSelectedClips(s) == RemoveEach(s, s.selectedClipIds, 1)

cutSelectedClips(s) == deleteSelectedClips(copySelectedClips(s))

RECURSIVE MinStartFrom(_, _)
MinStartFrom(cs, j) ==
    IF j = Len(cs) THEN cs[j].startTime
    ELSE Min(cs[j].startTime, MinStartFrom(cs, j + 1))

\* The pasted clip data with every copy starting at the playhead.
PasteDataAtPlayhead(clipData, pasteTime, minStartTime) ==
    Assign(clipData, [id |-> Undef,
                      startTime |-> pasteTime,
                      endTime |-> pasteTime + clipData.duration,
                      isSelected |-> FALSE])

\* The clipData pasteClips hands to addClip for one clipboard clip.
PasteData(clipData, pasteTime, minStartTime) ==
    LET offset == clipData.startTime - minStartTime
    IN  Assign(clipData, [id |-> Undef,
                          startTime |-> pasteTime + offset,
                          endTime |-> pasteTime + offset + clipData.duration,
                          isSelected |-> FALSE])

RECURSIVE PasteEach(_, _, _, _)
PasteEach(s, j, pasteTime, minStartTime) ==
    IF j > Len(s.clipboard) THEN s
    ELSE LET clipData == s.clipboard[j]
             ti == TrackIndexByType(s.tracks, clipData.type)
             next == IF ti # 0 /\ ~s.tracks[ti].isLocked
                     THEN addClip(s, s.tracks[ti].id, PasteData(clipData, pasteTime, minStartTime))
                     ELSE s
         IN  PasteEach(next, j + 1, pasteTime, minStartTime)

\* A paste that takes the clips out of the clipboard.
pasteClipsConsuming(s) ==
    IF Len(s.clipboard) = 0 THEN s
    ELSE [PasteEach(s, 1, s.currentTime, MinStartFrom(s.clipboard, 1)) EXCEPT !.clipboard = <<>>]

pasteClips(s) ==
    IF Len(s.clipboard) = 0 THEN s
    ELSE PasteEach(s, 1, s.currentTime, MinStartFrom(s.clipboard, 1))

\* The places <<track index, clip index>> of the selected clips, in track order.
RECURSIVE SelectedLocsFrom(_, _, _)
SelectedLocsFrom(s, i, j) ==
    IF i > Len(s.tracks) THEN <<>>
    ELSE IF j > Len(s.tracks[i].clips) THEN SelectedLocsFrom(s, i + 1, 1)
    ELSE (IF Includes(s.selectedClipIds, ClipId(s.tracks[i].clips[j])) THEN << <<i, j>> >> ELSE <<>>)
         \o SelectedLocsFrom(s, i, j + 1)

\* The clipData duplicateSelectedClips hands to addClip for one source clip.
DuplicateData(clip) ==
    Assign(JSONClip(clip), [id |-> Undef,
                            startTime |-> clip.endTime,
                            endTime |-> clip.endTime + clip.duration])

\* clipsToDuplicate holds the live clip objects: each is read when its turn comes.
RECURSIVE DuplicateEach(_, _, _)
DuplicateEach(s, locs, k) ==
    IF k > Len(locs) THEN s
    ELSE LET clip == s.tracks[locs[k][1]].clips[locs[k][2]]
             ti == getTrackByClipId(s, ClipId(clip))
             next == IF ti # 0 /\ ~s.tracks[ti].isLocked
                     THEN LET data == DuplicateData(clip)
                              newClip == NewClip(s, ti, data)
                          IN  selectClip(addClip(s, s.tracks[ti].id, data), ClipId(newClip), TRUE)
                     ELSE s
         IN  DuplicateEach(next, locs, k + 1)

duplicateSelectedClips(s) ==
    DuplicateEach(deselectAll(s), SelectedLocsFrom(s, 1, 1), 1)

---------------------------------------------------------------------------
\* Playback clock and legacy text actions.

updateTime(s, time) == [s EXCEPT !.currentTime = time]

\* setVideoFile: a new object URL for the file, and one track of each type
\* that has none yet, in the order video, audio, text.
setVideoFile(s, file) ==
    LET s0 == [s EXCEPT !.videoFile = file,
                        !.videoUrl = s.objectUrls + 1,
                        !.objectUrls = s.objectUrls + 1]
        s1 == IF TrackIndexByType(s0.tracks, "video") = 0 THEN addTrack(s0, "video") ELSE s0
        s2 == IF TrackIndexByType(s1.tracks, "audio") = 0 THEN addTrack(s1, "audio") ELSE s1
    IN  IF TrackIndexByType(s2.tracks, "text") = 0 THEN addTrack(s2, "text") ELSE s2

setVideoElement(s, element) == [s EXCEPT !.videoElement = TRUE, !.media = element]

\* loadVideoToPixi up to its first await, run by the watcher of videoUrl once
\* setVideoFile has handed out a new object URL: a new media element is created
\* and attached.  The element it replaces had the previous URL as its src; when
\* it has not reported its metadata yet, its onloadedmetadata and onerror
\* handlers stay attached to it.
loadVideoToPixi(s) ==
    LET old == s.objectUrls - 1
    IN  setVideoElement([s EXCEPT !.superseded = IF old > 0 /\ s.media.duration = Undef
                                                 THEN @ \cup {old} ELSE @],
                        NewMedia)

\* HTMLMediaElement.play(): playback resumes, from the start when it had ended.
MediaPlay(m) ==
    [m EXCEPT !.paused = FALSE,
              !.ended = FALSE,
              !.currentTime = IF m.ended THEN 0 ELSE @]

play(s) ==
    IF s.videoElement
    THEN [s EXCEPT !.media = MediaPlay(s.media), !.isPlaying = TRUE]
    ELSE s

\* pause with isPlaying left as it was.
pauseKeepingClock(s) ==
    IF s.videoElement
    THEN [s EXCEPT !.media.paused = TRUE]
    ELSE s

pause(s) ==
    IF s.videoElement
    THEN [s EXCEPT !.media.paused = TRUE, !.isPlaying = FALSE]
    ELSE s

togglePlay(s) == IF s.isPlaying THEN pause(s) ELSE play(s)

\* The clip setDuration hands to addClip.
MainVideoClipData(s, dur) ==
    [type |-> "video", src |-> s.videoUrl, fileName |-> s.videoFile,
     startTime |-> 0, endTime |-> dur, duration |-> dur,
     originalDuration |-> dur, sourceStartTime |-> 0]

\* setDuration with the main clip added whether or not the track has clips.
setDurationAlwaysAdding(s, dur) ==
    LET s0 == [s EXCEPT !.duration = dur]
        ti == TrackIndexByType(s0.tracks, "video")
    IN  IF ti # 0 /\ s0.videoUrl # Undef
        THEN addClip(s0, s0.tracks[ti].id, MainVideoClipData(s0, dur))
        ELSE s0

setDuration(s, dur) ==
    LET s0 == [s EXCEPT !.duration = dur]
        ti == TrackIndexByType(s0.tracks, "video")
    IN  IF ti # 0 /\ Len(s0.tracks[ti].clips) = 0 /\ s0.videoUrl # Undef
        THEN addClip(s0, s0.tracks[ti].id, MainVideoClipData(s0, dur))
        ELSE s0

seek(s, time) ==
    IF s.videoElement
    THEN [s EXCEPT !.media.currentTime = IF s.media.duration = Undef THEN time
                                           ELSE Min(time, s.media.duration),
                   !.media.ended = FALSE,
                   !.currentTime = time]
    ELSE s

\* reset leaves the clipboard, the zoom and the project duration as they are.
reset(s) ==
    [s EXCEPT !.videoFile = Undef, !.videoUrl = Undef, !.isPlaying = FALSE,
              !.currentTime = 0, !.duration = 0, !.videoElement = FALSE,
              !.tracks = <<>>, !.selectedClipIds = <<>>, !.selectedTrackId = Undef,
              !.history = <<>>, !.historyIndex = -1]

---------------------------------------------------------------------------
\* Timeline UI actions.  timelineZoom is kept as a fraction in lowest terms.

RECURSIVE Gcd(_, _)
Gcd(a, b) == IF b = 0 THEN a ELSE Gcd(b, a % b)

Fraction(n, d) == <<n \div Gcd(n, d), d \div Gcd(n, d)>>

\* Math.min(timelineZoom * 1.5, 10)
zoomIn(s) ==
    LET n == 3 * s.timelineZoom[1]
        d == 2 * s.timelineZoom[2]
    IN  [s EXCEPT !.timelineZoom = IF n > 10 * d THEN <<10, 1>> ELSE Fraction(n, d)]

\* Math.max(timelineZoom / 1.5, 0.1)
zoomOut(s) ==
    LET n == 2 * s.timelineZoom[1]
        d == 3 * s.timelineZoom[2]
    IN  [s EXCEPT !.timelineZoom = IF 10 * n < d THEN <<1, 10>> ELSE Fraction(n, d)]

zoomToFit(s) == [s EXCEPT !.timelineZoom = <<1, 1>>]

toggleSnapping(s) == [s EXCEPT !.isSnappingEnabled = ~s.isSnappingEnabled]

---------------------------------------------------------------------------
\* Legacy text actions and the wizard's store calls.

\* The clipData addText hands to addClip.
TextData(s) ==
    [type |-> "text",
     startTime |-> s.currentTime,
     endTime |-> Min(s.currentTime + TextClipTicks,
                     OrElse(s.duration, s.currentTime + TextClipTicks)),
     duration |-> TextClipTicks]

addText(s) ==
    LET withTrack == IF TrackIndexByType(s.tracks, "text") = 0 THEN addTrack(s, "text") ELSE s
        ti == TrackIndexByType(withTrack.tracks, "text")
        clip == NewClip(withTrack, ti, TextData(withTrack))
    IN  selectClip(addClip(withTrack, withTrack.tracks[ti].id, TextData(withTrack)),
                   ClipId(clip), FALSE)

updateTextTiming(s, id, startTime, endTime) ==
    updateClip(s, id, [startTime |-> startTime, endTime |-> endTime,
                       duration |-> endTime - startTime])

\* The canvas toolbar: the placeholder clip of a stock image, and the two mock captions.
StockImageData ==
    [type |-> "text", startTime |-> 0, duration |-> 5 * TicksPerSecond]

CaptionData ==
    << [type |-> "text", startTime |-> TicksPerSecond \div 2,
        endTime |-> 3 * TicksPerSecond, duration |-> (5 * TicksPerSecond) \div 2],
       [type |-> "text", startTime |-> (7 * TicksPerSecond) \div 2,
        endTime |-> (13 * TicksPerSecond) \div 2, duration |-> 3 * TicksPerSecond] >>

addStockItem(s) ==
    LET withTrack == addTrack(s, "text")
    IN  addClip(withTrack, withTrack.tracks[Len(withTrack.tracks)].id, StockImageData)

generateCaptions(s) ==
    LET withTrack == addTrack(s, "text")
        trackId == withTrack.tracks[Len(withTrack.tracks)].id
    IN  addClip(addClip(withTrack, trackId, CaptionData[1]), trackId, CaptionData[2])

---------------------------------------------------------------------------
\* Timeline.vue: dragging a clip or one of its trim handles.

\* deltaX pixels as a time: deltaX / (PIXELS_PER_SECOND_BASE * timelineZoom) seconds.
PixelsToTicks(s, deltaX) ==
    (deltaX * TicksPerSecond * s.timelineZoom[2]) \div (PIXELS_PER_SECOND_BASE * s.timelineZoom[1])

\* What handleClipDrag asks of the store for a pointer deltaX pixels from the start.
dragStep(s, drag, deltaX) ==
    LET deltaTime == PixelsToTicks(s, deltaX)
    IN  IF drag.type = "move"
        THEN moveClip(s, drag.id, Max(0, drag.originalStart + deltaTime), Undef)
        ELSE IF drag.type = "trim-start"
        THEN trimClipStart(s, drag.id, drag.originalStart + deltaTime)
        ELSE trimClipEnd(s, drag.id, drag.originalEnd + deltaTime)

---------------------------------------------------------------------------
\* Inputs of the operations.

EmptyData == [k \in {} |-> Undef]

\* Partial clips handed to addClip: none, the stock placeholder, and a clip
\* tagged with a type of its own.
ClipDataInputs == {EmptyData, StockImageData, [type |-> "audio"]}

\* The render scenario also stops inside the first and the last 0.3 s of a
\* text added at 0.
PlayheadTimes ==
    IF scenario = "render"
    THEN {0, 3, 3 * TicksPerSecond - 3, 4 * TicksPerSecond}
    ELSE IF scenario = "frame"
    THEN {TicksPerSecond \div 2, (3 * TicksPerSecond) \div 2, 2 * TicksPerSecond,
          (5 * TicksPerSecond) \div 2}
    ELSE IF scenario = "snap"
    THEN {0, 5 * TicksPerSecond + 2}
    ELSE {0, 2 * TicksPerSecond, 3 * TicksPerSecond}
\* The edit scenario also splits one tick after 0.
SplitTimes ==
    IF scenario = "edit" THEN {1, 2 * TicksPerSecond}
    ELSE {2 * TicksPerSecond, 5 * TicksPerSecond}
\* The edit scenario asks for starts one to four ticks away from the snap point 0.
\* The snap scenario asks for starts one tick on either side of the end of
\* a clip added at 0.
MoveTimes ==
    IF scenario = "edit" THEN {-TicksPerSecond, 1, 2, 3, 4, 6 * TicksPerSecond}
    ELSE IF scenario = "snap" THEN {5 * TicksPerSecond - 1, 5 * TicksPerSecond + 1}
    ELSE {-TicksPerSecond, 1, 6 * TicksPerSecond}
TrimTimes == {-TicksPerSecond, TicksPerSecond, 8 * TicksPerSecond}
\* The layout scenario sets a scale, a rotation and a brightness.
ClipUpdates ==
    IF scenario = "layout"
    THEN {[scale |-> 200], [rotation |-> 90], [filters |-> [brightness |-> 50, preset |-> "none"]]}
    ELSE {[x |-> 1]}
TrackUpdates == {[isLocked |-> TRUE]}
TextTimings == {<<TicksPerSecond, 4 * TicksPerSecond>>}
DragPixels == {-400, 8, 160}
DragTypes == {"move", "trim-start", "trim-end"}

\* An id no track and no clip has: generateId never returns it.
UnknownId == -1

\* The stale scenario also calls the store with an id that matches nothing.
StaleIds == IF scenario = "stale" THEN {UnknownId} ELSE {}

TrackIds == {tracks[i].id : i \in 1..Len(tracks)} \cup StaleIds
LiveClips == {AllClips(tracks)[j] : j \in 1..Len(AllClips(tracks))}
ClipIds == {ClipId(c) : c \in LiveClips} \cup StaleIds
NumClips == Len(AllClips(tracks))

\* No drag in progress (draggingClip is null), and no drag seen yet.
NoDrag == [id |-> Undef, type |-> "none", originalStart |-> 0, originalEnd |-> 0]

NoGesture ==
    [id |-> Undef, type |-> "none", startTime |-> 0, endTime |-> 0,
     sourceStartTime |-> 0, moved |-> FALSE]

\* ret is what the call returns: "void", "null" or "value".
OpRet(name, a, b, c, ret) ==
    [name |-> name, a |-> a, b |-> b, c |-> c, changed |-> FALSE, ret |-> ret]

Op(name, a, b, c) == OpRet(name, a, b, c, "void")

Budget ==
    CASE scenario = "api" -> MaxSteps
      [] scenario = "clipboard" -> MaxClipboardSteps
      [] scenario = "drag" -> MaxDragSteps
      [] scenario = "history" -> MaxHistSteps
      [] scenario = "edit" -> MaxEditSteps
      [] scenario = "stale" -> MaxStaleSteps
      [] scenario = "media" -> MaxMediaSteps
      [] scenario = "playback" -> MaxPlaybackSteps
      [] scenario = "gesture" -> MaxGestureSteps
      [] scenario = "render" -> MaxRenderSteps
      [] scenario = "frame" -> MaxFrameSteps
      [] scenario = "layout" -> MaxLayoutSteps
      [] scenario = "snap" -> MaxSnapSteps
      [] scenario = "reload" -> MaxReloadSteps

\* The budget of a run.  In the history scenario the operations start once the
\* history holds maxHistorySize entries.
CanStep ==
    /\ steps < Budget
    /\ scenario = "history" => (steps > 0 \/ Len(history) = maxHistorySize)

\* One step: the new store and the bookkeeping.
Step(s, op) ==
    /\ Commit(s)
    /\ steps' = steps + 1
    /\ lastOp' = [op EXCEPT !.changed = (s # Cur)]
    /\ UNCHANGED scenario

---------------------------------------------------------------------------
\* The canvas: one text layer per overlay.  alpha and scale are in hundredths;
\* a text is held as its length, which is all that typewriter changes.

DefaultTextLength == 10
DefaultTextX == 100
DefaultTextY == 100
DefaultAnimationTicks == (3 * TicksPerSecond) \div 10    \* 0.3 s
NoAnimation == [type |-> "none", duration |-> DefaultAnimationTicks]

\* One entry of textOverlays.  A property addClip gives every text clip and
\* that the clip of the model does not carry has the value addClip gives it.
Overlay(c) ==
    [id |-> ClipId(c),
     text |-> OrElse(Get(c, "text"), DefaultTextLength),
     x |-> OrElse(Get(c, "x"), DefaultTextX),
     y |-> OrElse(Get(c, "y"), DefaultTextY),
     startTime |-> c.startTime,
     endTime |-> c.endTime,
     isSelected |-> c.isSelected,
     animationIn |-> IF "animationIn" \in DOMAIN c THEN c.animationIn ELSE NoAnimation,
     animationOut |-> IF "animationOut" \in DOMAIN c THEN c.animationOut ELSE NoAnimation]

RECURSIVE OverlaysOf(_, _)
OverlaysOf(cs, j) ==
    IF j > Len(cs) THEN <<>>
    ELSE (IF cs[j].type = "text" THEN <<Overlay(cs[j])>> ELSE <<>>) \o OverlaysOf(cs, j + 1)

\* textOverlays: the text clips of the first text track.
textOverlays(s) ==
    LET ti == TrackIndexByType(s.tracks, "text")
    IN  IF ti = 0 THEN <<>> ELSE OverlaysOf(s.tracks[ti].clips, 1)

\* new Map(overlays.map(t => [t.id, t])).get(id): the last entry with the id,
\* as an index, or 0.
OverlayIndex(overlays, id) ==
    IF \E i \in 1..Len(overlays) : overlays[i].id = id
    THEN CHOOSE i \in 1..Len(overlays) :
            overlays[i].id = id /\ \A h \in (i + 1)..Len(overlays) : overlays[h].id # id
    ELSE 0

\* createTextObject
createTextObject(overlay) ==
    [visible |-> TRUE, alpha |-> 100, x |-> overlay.x, y |-> overlay.y,
     scale |-> 100, text |-> overlay.text]

\* Progress counted down from 1 instead of up from 0.
ProgressFromEnd(elapsed, length) == Max(0, Min(100, (100 * (length - elapsed)) \div length))

\* Progress of an animation in hundredths, clamped to [0, 1].
Progress(elapsed, length) == Max(0, Min(100, (100 * elapsed) \div length))

\* The loop body with the entrance effect dropped while the exit effect runs.
AnimateTextExitAlone(overlay, time) ==
    LET animIn == overlay.animationIn
        animOut == overlay.animationOut
        remaining == overlay.endTime - time
        outActive == animOut.type # "none" /\ remaining < animOut.duration
        inActive == /\ animIn.type # "none"
                    /\ (time - overlay.startTime) < animIn.duration
                    /\ ~outActive
        tIn == IF inActive THEN Progress(time - overlay.startTime, animIn.duration) ELSE 100
        tOut == IF outActive THEN Progress(animOut.duration - remaining, animOut.duration) ELSE 0
        alphaIn == IF inActive /\ animIn.type = "fade" THEN tIn ELSE 100
        alpha == IF outActive /\ animOut.type = "fade" THEN (alphaIn * (100 - tOut)) \div 100 ELSE alphaIn
        yIn == IF inActive /\ animIn.type = "slide" THEN overlay.y + ((100 - tIn) * 50) \div 100 ELSE overlay.y
        y == IF outActive /\ animOut.type = "slide" THEN yIn - (tOut * 50) \div 100 ELSE yIn
        scaleIn == IF inActive /\ animIn.type = "scale" THEN tIn ELSE 100
        scale == IF outActive /\ animOut.type = "scale" THEN 100 - tOut ELSE scaleIn
        textContent == IF inActive /\ animIn.type = "typewriter"
                       THEN (overlay.text * tIn) \div 100 ELSE overlay.text
    IN  [visible |-> TRUE, alpha |-> alpha, x |-> overlay.x, y |-> y,
         scale |-> scale, text |-> textContent]

\* animateTexts, the body of the loop for one layer.
AnimateText(overlay, time) ==
    LET animIn == overlay.animationIn
        animOut == overlay.animationOut
        inActive == animIn.type # "none" /\ (time - overlay.startTime) < animIn.duration
        tIn == IF inActive THEN Progress(time - overlay.startTime, animIn.duration) ELSE 100
        remaining == overlay.endTime - time
        outActive == animOut.type # "none" /\ remaining < animOut.duration
        tOut == IF outActive THEN Progress(animOut.duration - remaining, animOut.duration) ELSE 0
        alphaIn == IF inActive /\ animIn.type = "fade" THEN tIn ELSE 100
        alpha == IF outActive /\ animOut.type = "fade" THEN (alphaIn * (100 - tOut)) \div 100 ELSE alphaIn
        yIn == IF inActive /\ animIn.type = "slide" THEN overlay.y + ((100 - tIn) * 50) \div 100 ELSE overlay.y
        y == IF outActive /\ animOut.type = "slide" THEN yIn - (tOut * 50) \div 100 ELSE yIn
        scaleIn == IF inActive /\ animIn.type = "scale" THEN tIn ELSE 100
        scale == IF outActive /\ animOut.type = "scale" THEN 100 - tOut ELSE scaleIn
        textContent == IF inActive /\ animIn.type = "typewriter"
                       THEN (overlay.text * tIn) \div 100 ELSE overlay.text
    IN  [visible |-> TRUE, alpha |-> alpha, x |-> overlay.x, y |-> y,
         scale |-> scale, text |-> textContent]

\* animateTexts: the pass the renderer's ticker runs on every frame.
animateTexts(objs, s) ==
    LET overlays == textOverlays(s)
    IN  [id \in DOMAIN objs |->
            LET i == OverlayIndex(overlays, id)
            IN  IF i = 0 \/ s.currentTime < overlays[i].startTime
                         \/ s.currentTime > overlays[i].endTime
                THEN [objs[id] EXCEPT !.visible = FALSE]
                ELSE AnimateText(overlays[i], s.currentTime)]

\* updateTextVisibility: the pass the watchers run.
updateTextVisibility(objs, s) ==
    LET overlays == textOverlays(s)
    IN  [id \in DOMAIN objs |->
            LET i == OverlayIndex(overlays, id)
            IN  IF i = 0 THEN objs[id]
                ELSE [objs[id] EXCEPT
                        !.visible = s.currentTime >= overlays[i].startTime
                                    /\ s.currentTime <= overlays[i].endTime,
                        !.alpha = IF overlays[i].isSelected THEN 100 ELSE 95]]

\* watch(textOverlays.length): a layer for every overlay that has none, and
\* no layer without an overlay.
SyncTextObjects(objs, overlays) ==
    LET ids == {overlays[i].id : i \in 1..Len(overlays)}
    IN  [id \in ids |->
            IF id \in DOMAIN objs THEN objs[id]
            ELSE createTextObject(overlays[OverlayIndex(overlays, id)])]

\* watch(text properties): text and position are copied to the layers.
ApplyTextProperties(objs, overlays) ==
    [id \in DOMAIN objs |->
        LET i == OverlayIndex(overlays, id)
        IN  IF i = 0 THEN objs[id]
            ELSE [objs[id] EXCEPT !.text = overlays[i].text,
                                  !.x = overlays[i].x,
                                  !.y = overlays[i].y]]

\* What the watcher of the text properties compares.
TextPropertyKey(overlays) ==
    AsArray([i \in 1..Len(overlays) |->
        <<overlays[i].id, overlays[i].text, overlays[i].x, overlays[i].y, overlays[i].isSelected>>])

\* The canvas watchers, run in the order they were registered once the handler
\* that produced the store s has returned.  The watcher of currentTime fires
\* when the tenth of a second changes and then runs the pass only if more
\* than 100 ms of wall time have gone by since it last did.  The layers are
\* followed in the render and frame scenarios.
WatchCanvas(s) ==
    IF scenario \notin {"render", "frame"} \/ ~canvasMounted
    THEN UNCHANGED <<textObjects, lastVisibilityUpdate, lastPass>>
    ELSE LET old == textOverlays(Cur)
             new == textOverlays(s)
             lengthChanged == Len(old) # Len(new)
             propertiesChanged == TextPropertyKey(old) # TextPropertyKey(new)
             timeChanged == (Cur.currentTime \div 2) # (s.currentTime \div 2)
             inputsChanged == \/ s.tracks # Cur.tracks
                              \/ s.selectedClipIds # Cur.selectedClipIds
                              \/ s.currentTime # Cur.currentTime
             o1 == IF lengthChanged
                   THEN updateTextVisibility(SyncTextObjects(textObjects, new), s)
                   ELSE textObjects
             o2 == IF propertiesChanged
                   THEN updateTextVisibility(ApplyTextProperties(o1, new), s)
                   ELSE o1
         IN  \E run \in IF ~timeChanged THEN {FALSE}
                         ELSE IF lastVisibilityUpdate = 0 THEN {TRUE} ELSE BOOLEAN :
                /\ textObjects' = IF run THEN updateTextVisibility(o2, s) ELSE o2
                /\ lastVisibilityUpdate' = IF run THEN 1 ELSE lastVisibilityUpdate
                /\ lastPass' = IF lengthChanged \/ propertiesChanged \/ run THEN "visibility"
                               ELSE IF inputsChanged THEN "none"
                               ELSE lastPass

\* editorStore.videoClips[0]: the first video clip of the video tracks, as
\* <<track index, clip index>>, or <<0, 0>>.
currentVideoClip(s) ==
    LET found == {loc \in {<<i, j>> : i \in 1..Len(s.tracks), j \in 1..Len(AllClips(s.tracks))} :
                    /\ loc[2] <= Len(s.tracks[loc[1]].clips)
                    /\ s.tracks[loc[1]].type = "video"
                    /\ s.tracks[loc[1]].clips[loc[2]].type = "video"}
    IN  IF found = {} THEN <<0, 0>>
        ELSE CHOOSE loc \in found :
                \A other \in found :
                    loc[1] < other[1] \/ (loc[1] = other[1] /\ loc[2] <= other[2])

\* The video layer.  Scale, alpha and the offsets are in hundredths and the
\* fit scale and the letterbox origin are left out: the layer is held
\* relative to the fitted, centred frame.
NoFilters == [brightness |-> 0, preset |-> "none"]

\* No sprite yet, and the sprite loadVideoToPixi creates.
NoSprite ==
    [present |-> FALSE, scale |-> 100, x |-> 0, y |-> 0, rotation |-> 0,
     alpha |-> 100, flipX |-> FALSE, flipY |-> FALSE, filters |-> NoFilters]

NewSprite == [NoSprite EXCEPT !.present = TRUE]

\* updateVideoSpriteLayout: scale and offset fall back to 1 and 0 without a
\* clip; rotation, opacity and the flips are written only when there is one.
updateVideoSpriteLayout(sprite, s) ==
    LET loc == currentVideoClip(s)
    IN  IF ~sprite.present \/ ~s.videoElement THEN sprite
        ELSE IF loc[1] = 0 THEN [sprite EXCEPT !.scale = 100, !.x = 0, !.y = 0]
        ELSE LET clip == s.tracks[loc[1]].clips[loc[2]]
             IN  [sprite EXCEPT !.scale = OrElse(Get(clip, "scale"), 100),
                                !.x = Get(clip, "x"),
                                !.y = Get(clip, "y"),
                                !.rotation = Get(clip, "rotation"),
                                !.alpha = IF "opacity" \in DOMAIN clip THEN clip.opacity ELSE 100,
                                !.flipX = "flipX" \in DOMAIN clip /\ clip.flipX,
                                !.flipY = "flipY" \in DOMAIN clip /\ clip.flipY]

\* The filters of a video clip.
FiltersOf(clip) == IF "filters" \in DOMAIN clip THEN clip.filters ELSE NoFilters

\* The watcher of the filters: the colour matrix is rebuilt from the clip's.
ApplyFilters(sprite, s) ==
    LET loc == currentVideoClip(s)
    IN  IF ~sprite.present \/ loc[1] = 0 THEN sprite
        ELSE [sprite EXCEPT !.filters = FiltersOf(s.tracks[loc[1]].clips[loc[2]])]

\* What the watcher of the transform compares, and what the watcher of the
\* filters compares: '' (the empty tuple) without a video clip.
TransformKey(s) ==
    LET loc == currentVideoClip(s)
    IN  IF loc[1] = 0 THEN <<>>
        ELSE LET clip == s.tracks[loc[1]].clips[loc[2]]
             IN  <<Get(clip, "rotation"), OrElse(Get(clip, "scale"), 100),
                   "flipX" \in DOMAIN clip /\ clip.flipX, "flipY" \in DOMAIN clip /\ clip.flipY,
                   IF "opacity" \in DOMAIN clip THEN clip.opacity ELSE 100,
                   Get(clip, "x"), Get(clip, "y")>>

FilterKey(s) ==
    LET loc == currentVideoClip(s)
    IN  IF loc[1] = 0 THEN <<>> ELSE <<FiltersOf(s.tracks[loc[1]].clips[loc[2]])>>

\* The canvas watchers of the video layer, run once the handler that produced
\* the store s has returned.  A new videoUrl starts loadVideoToPixi, which
\* destroys the sprite of the media it replaces.  The layer is followed in the
\* layout scenario.
WatchVideoClip(s) ==
    IF scenario # "layout" \/ ~canvasMounted
    THEN UNCHANGED videoSprite
    ELSE LET v0 == IF s.videoUrl # Cur.videoUrl /\ s.videoUrl # Undef THEN NoSprite
                   ELSE videoSprite
             v1 == IF TransformKey(s) # TransformKey(Cur)
                   THEN updateVideoSpriteLayout(v0, s) ELSE v0
         IN  videoSprite' = IF FilterKey(s) # FilterKey(Cur) THEN ApplyFilters(v1, s) ELSE v1

\* Timeline.vue, startAnimationLoop: requests a frame for updateTime and keeps
\* its id.  A request already pending is left pending.
StartAnimationLoop ==
    /\ animationFrameId' = 1
    /\ pendingFrames' = pendingFrames + 1

\* Timeline.vue, stopAnimationLoop: cancels the request whose id is kept.
StopAnimationLoop ==
    IF animationFrameId # Undef
    THEN /\ animationFrameId' = Undef
         /\ pendingFrames' = pendingFrames - 1
    ELSE UNCHANGED <<animationFrameId, pendingFrames>>

\* Timeline.vue, watch(() => editorStore.isPlaying): runs once the handler that
\* changed isPlaying has returned, before any frame callback, and only when the
\* value differs from the one the watcher saw last.
WatchIsPlaying ==
    /\ IF timelineMounted /\ isPlaying' # isPlaying
       THEN IF isPlaying' THEN StartAnimationLoop ELSE StopAnimationLoop
       ELSE UNCHANGED <<animationFrameId, pendingFrames>>
    /\ UNCHANGED timelineMounted

\* One operation of the store, called from outside a drag handler, and the
\* watchers it triggers.
Do(s, op) ==
    /\ Step(s, op)
    /\ WatchIsPlaying
    /\ WatchCanvas(s)
    /\ WatchVideoClip(s)
    /\ UNCHANGED <<draggingClip, listeners, gesture, gestureVars>>

---------------------------------------------------------------------------
\* Actions.

InitStore ==
    /\ tracks = FreshStore.tracks
    /\ selectedClipIds = FreshStore.selectedClipIds
    /\ selectedTrackId = FreshStore.selectedTrackId
    /\ clipboard = FreshStore.clipboard
    /\ history = FreshStore.history
    /\ historyIndex = FreshStore.historyIndex
    /\ currentTime = FreshStore.currentTime
    /\ duration = FreshStore.duration
    /\ projectDuration = FreshStore.projectDuration
    /\ videoElement = FreshStore.videoElement
    /\ timelineZoom = FreshStore.timelineZoom
    /\ isSnappingEnabled = FreshStore.isSnappingEnabled
    /\ nextId = FreshStore.nextId
    /\ videoFile = FreshStore.videoFile
    /\ videoUrl = FreshStore.videoUrl
    /\ isPlaying = FreshStore.isPlaying
    /\ media = FreshStore.media
    /\ objectUrls = FreshStore.objectUrls
    /\ endedQueued = FreshStore.endedQueued
    /\ superseded = FreshStore.superseded
    /\ timelineMounted = TRUE
    /\ animationFrameId = Undef
    /\ pendingFrames = 0
    /\ isDraggingPlayhead = FALSE
    /\ canvasMounted = TRUE
    /\ isResizing = FALSE
    /\ isRotating = FALSE
    /\ documentListeners = {}
    /\ textObjects = <<>>
    /\ lastVisibilityUpdate = 0
    /\ lastPass = "none"
    /\ videoSprite = NoSprite
    /\ draggingClip = NoDrag
    /\ listeners = FALSE
    /\ gesture = NoGesture
    /\ steps = 0
    /\ lastOp = Op("init", Undef, Undef, Undef)

Init == InitStore /\ scenario = "api"

AddTrack ==
    /\ CanStep
    /\ \E type \in TrackTypes :
           /\ Len(tracks) < MaxTracks
           /\ Do(addTrack(Cur, type), Op("addTrack", type, Undef, Undef))

RemoveTrack ==
    /\ CanStep
    /\ \E trackId \in TrackIds :
           Do(removeTrack(Cur, trackId), Op("removeTrack", trackId, Undef, Undef))

ToggleTrackLock ==
    /\ CanStep
    /\ \E i \in 1..Len(tracks) :
           Do(updateTrack(Cur, tracks[i].id, [isLocked |-> ~tracks[i].isLocked]),
              Op("updateTrack", tracks[i].id, Undef, Undef))

UpdateTrack ==
    /\ CanStep
    /\ \E trackId \in TrackIds, updates \in TrackUpdates :
           Do(updateTrack(Cur, trackId, updates), Op("updateTrack", trackId, updates, Undef))

ReorderTracks ==
    /\ CanStep
    /\ \E fromIndex \in 0..(Len(tracks) - 1), toIndex \in 0..(Len(tracks) - 1) :
           /\ fromIndex # toIndex
           /\ Do(reorderTracks(Cur, fromIndex, toIndex), Op("reorderTracks", fromIndex, toIndex, Undef))

AddClip ==
    /\ CanStep
    /\ \E trackId \in TrackIds, clipData \in ClipDataInputs :
           /\ NumClips < MaxClips
           /\ Do(addClip(Cur, trackId, clipData),
                 OpRet("addClip", trackId, clipData, Undef, addClipReturns(Cur, trackId)))

RemoveClip ==
    /\ CanStep
    /\ \E clipId \in ClipIds :
           Do(removeClip(Cur, clipId), Op("removeClip", clipId, Undef, Undef))

UpdateClip ==
    /\ CanStep
    /\ \E clipId \in ClipIds, updates \in ClipUpdates :
           Do(updateClip(Cur, clipId, updates), Op("updateClip", clipId, updates, Undef))

UpdateTextTiming ==
    /\ CanStep
    /\ \E id \in ClipIds, timing \in TextTimings :
           Do(updateTextTiming(Cur, id, timing[1], timing[2]),
              Op("updateTextTiming", id, timing[1], timing[2]))

SplitClip ==
    /\ CanStep
    /\ \E clipId \in ClipIds, splitTime \in SplitTimes :
           /\ NumClips < MaxClips
           /\ Do(splitClip(Cur, clipId, splitTime),
                 OpRet("splitClip", clipId, splitTime, Undef, splitClipReturns(Cur, clipId, splitTime)))

SplitSelectedClipsAtPlayhead ==
    /\ CanStep
    /\ NumClips + Len(selectedClips(Cur)) <= MaxClips
    /\ Do(splitSelectedClipsAtPlayhead(Cur), Op("splitSelectedClipsAtPlayhead", Undef, Undef, Undef))

MoveClip ==
    /\ CanStep
    /\ \E clipId \in ClipIds, newStartTime \in MoveTimes, newTrackId \in TrackIds \cup {Undef} :
           Do(moveClip(Cur, clipId, newStartTime, newTrackId),
              Op("moveClip", clipId, newStartTime, newTrackId))

ZoomIn ==
    /\ CanStep
    /\ Do(zoomIn(Cur), Op("zoomIn", Undef, Undef, Undef))

ZoomOut ==
    /\ CanStep
    /\ Do(zoomOut(Cur), Op("zoomOut", Undef, Undef, Undef))

ZoomToFit ==
    /\ CanStep
    /\ Do(zoomToFit(Cur), Op("zoomToFit", Undef, Undef, Undef))

ToggleSnapping ==
    /\ CanStep
    /\ Do(toggleSnapping(Cur), Op("toggleSnapping", Undef, Undef, Undef))

TrimClipStart ==
    /\ CanStep
    /\ \E clipId \in ClipIds, newStartTime \in TrimTimes :
           Do(trimClipStart(Cur, clipId, newStartTime), Op("trimClipStart", clipId, newStartTime, Undef))

TrimClipEnd ==
    /\ CanStep
    /\ \E clipId \in ClipIds, newEndTime \in TrimTimes :
           Do(trimClipEnd(Cur, clipId, newEndTime), Op("trimClipEnd", clipId, newEndTime, Undef))

SelectClip ==
    /\ CanStep
    /\ \E clipId \in ClipIds, addToSelection \in BOOLEAN :
           Do(selectClip(Cur, clipId, addToSelection), Op("selectClip", clipId, addToSelection, Undef))

DeselectClip ==
    /\ CanStep
    /\ \E clipId \in ClipIds :
           Do(deselectClip(Cur, clipId), Op("deselectClip", clipId, Undef, Undef))

DeselectAll ==
    /\ CanStep
    /\ Do(deselectAll(Cur), Op("deselectAll", Undef, Undef, Undef))

SelectAllClips ==
    /\ CanStep
    /\ Do(selectAllClips(Cur), Op("selectAllClips", Undef, Undef, Undef))

CopySelectedClips ==
    /\ CanStep
    /\ Do(copySelectedClips(Cur), Op("copySelectedClips", Undef, Undef, Undef))

CutSelectedClips ==
    /\ CanStep
    /\ Do(cutSelectedClips(Cur), Op("cutSelectedClips", Undef, Undef, Undef))

PasteClips ==
    /\ CanStep
    /\ NumClips + Len(clipboard) <= MaxClips
    /\ Do(pasteClips(Cur), Op("pasteClips", Undef, Undef, Undef))

DuplicateSelectedClips ==
    /\ CanStep
    /\ NumClips + Len(selectedClips(Cur)) <= MaxClips
    /\ Do(duplicateSelectedClips(Cur), Op("duplicateSelectedClips", Undef, Undef, Undef))

DeleteSelectedClips ==
    /\ CanStep
    /\ Do(deleteSelectedClips(Cur), Op("deleteSelectedClips", Undef, Undef, Undef))

Undo ==
    /\ CanStep
    /\ Do(undo(Cur), Op("undo", Undef, Undef, Undef))

Redo ==
    /\ CanStep
    /\ Do(redo(Cur), Op("redo", Undef, Undef, Undef))

Reset ==
    /\ CanStep
    /\ Do(reset(Cur), Op("reset", Undef, Undef, Undef))

VideoFiles == {1, 2}
MediaDurations == {2 * TicksPerSecond, 3 * TicksPerSecond}
MediaTimes == {TicksPerSecond, 2 * TicksPerSecond}

\* PropertyPanel.vue hands the chosen file to setVideoFile; the watcher of
\* videoUrl then runs loadVideoToPixi up to its first await: a new media
\* element is created and attached.
SetVideoFile ==
    /\ CanStep
    /\ \E file \in VideoFiles :
           Do(loadVideoToPixi(setVideoFile(Cur, file)),
              Op("setVideoFile", file, Undef, Undef))

\* loadVideoToPixi, onloadedmetadata: the element knows its duration and hands
\* it to setDuration.  The element cannot advance before the seek to 0 that
\* follows has completed, and by then ontimeupdate and onended are attached.
LoadedMetadata ==
    /\ CanStep
    /\ objectUrls > 0
    /\ media.duration = Undef
    /\ \E dur \in MediaDurations :
           Do(setDuration([Cur EXCEPT !.media.duration = dur], dur),
              Op("setDuration", dur, Undef, Undef))

\* loadVideoToPixi, onloadedmetadata of an element that has been replaced: the
\* handler closes over its own element and hands that element's duration to
\* setDuration.
SupersededLoadedMetadata ==
    /\ CanStep
    /\ \E src \in superseded, dur \in MediaDurations :
           Do(setDuration([Cur EXCEPT !.superseded = @ \ {src}], dur),
              Op("supersededMetadata", dur, src, Undef))

\* loadVideoToPixi, onerror of an element that has been replaced: its object
\* URL was revoked by setVideoFile or reset, the load may fail, and the promise
\* is rejected.
SupersededLoadError ==
    /\ CanStep
    /\ \E src \in superseded :
           Do([Cur EXCEPT !.superseded = @ \ {src}],
              Op("supersededError", src, Undef, Undef))

\* loadVideoToPixi past its second await: the element has sought to 0, the
\* sprite is created over it and laid out, its colour matrix starts empty.
VideoSeeked ==
    /\ CanStep
    /\ canvasMounted
    /\ media.duration # Undef
    /\ ~videoSprite.present
    /\ Step(Cur, Op("onseeked", Undef, Undef, Undef))
    /\ videoSprite' = updateVideoSpriteLayout(NewSprite, Cur)
    /\ UNCHANGED <<textObjects, lastVisibilityUpdate, lastPass, draggingClip, listeners,
                   gesture, timelineVars, gestureVars>>

Play ==
    /\ CanStep
    /\ Do(play(Cur), Op("play", Undef, Undef, Undef))

Pause ==
    /\ CanStep
    /\ Do(pause(Cur), Op("pause", Undef, Undef, Undef))

TogglePlay ==
    /\ CanStep
    /\ Do(togglePlay(Cur), Op("togglePlay", Undef, Undef, Undef))

Seek ==
    /\ CanStep
    /\ \E time \in PlayheadTimes :
           Do(seek(Cur, time), Op("seek", time, Undef, Undef))

\* The element plays on and fires timeupdate: ontimeupdate republishes its time.
MediaTimeUpdate ==
    /\ CanStep
    /\ media.duration # Undef /\ ~media.paused /\ ~media.ended
    /\ \E time \in MediaTimes :
           /\ media.currentTime < time /\ time < media.duration
           /\ Do(updateTime([Cur EXCEPT !.media.currentTime = time], time),
                 Op("ontimeupdate", time, Undef, Undef))

\* The element plays to its end: an ended event is queued.
MediaReachesEnd ==
    /\ CanStep
    /\ media.duration # Undef /\ ~media.paused /\ ~media.ended
    /\ Do([Cur EXCEPT !.media.ended = TRUE,
                      !.media.currentTime = media.duration,
                      !.endedQueued = TRUE],
          Op("mediaEnded", Undef, Undef, Undef))

\* loadVideoToPixi, onended: the queued event reaches its handler, which calls
\* pause.  The event loop runs it whatever else the user does.
DispatchEnded ==
    /\ endedQueued
    /\ Commit(pause([Cur EXCEPT !.endedQueued = FALSE]))
    /\ lastOp' = [Op("onended", IF isPlaying THEN 1 ELSE 0, Undef, Undef)
                     EXCEPT !.changed = TRUE]
    /\ WatchIsPlaying
    /\ UNCHANGED <<canvasVars, draggingClip, listeners, gesture, gestureVars, scenario, steps>>

\* Timeline.vue, the frame callback of startAnimationLoop: republishes the
\* element's time while playing, and requests the next frame in any case.
AnimationFrame ==
    /\ CanStep
    /\ pendingFrames > 0
    /\ Step(IF videoElement /\ isPlaying THEN updateTime(Cur, media.currentTime) ELSE Cur,
            Op("animationFrame", Undef, Undef, Undef))
    /\ animationFrameId' = 1
    /\ UNCHANGED <<canvasVars, pendingFrames, timelineMounted, draggingClip, listeners, gesture, gestureVars>>

\* Timeline.vue, onMounted: the loop starts if the clock is already playing.
TimelineMounted ==
    /\ CanStep
    /\ ~timelineMounted
    /\ Step(Cur, Op("onMounted", Undef, Undef, Undef))
    /\ timelineMounted' = TRUE
    /\ IF isPlaying THEN StartAnimationLoop ELSE UNCHANGED <<animationFrameId, pendingFrames>>
    /\ UNCHANGED <<canvasVars, draggingClip, listeners, gesture, gestureVars>>

\* Timeline.vue, onUnmounted: the loop is stopped and the document listeners of
\* the ruler and of the clip drag are removed.
TimelineUnmounted ==
    /\ CanStep
    /\ timelineMounted
    /\ Step(Cur, Op("onUnmounted", Undef, Undef, Undef))
    /\ timelineMounted' = FALSE
    /\ StopAnimationLoop
    /\ listeners' = FALSE
    /\ documentListeners' = documentListeners \ {"ruler"}
    /\ UNCHANGED <<canvasVars, draggingClip, gesture, isDraggingPlayhead, canvasMounted, isResizing, isRotating>>

UpdateTime ==
    /\ CanStep
    /\ \E time \in PlayheadTimes :
           Do(updateTime(Cur, time), Op("updateTime", time, Undef, Undef))

AddText ==
    /\ CanStep
    /\ NumClips < MaxClips
    /\ TrackIndexByType(tracks, "text") # 0 \/ Len(tracks) < MaxTracks
    /\ Do(addText(Cur), Op("addText", Undef, Undef, Undef))

AddStockItem ==
    /\ CanStep
    /\ NumClips < MaxClips
    /\ Len(tracks) < MaxTracks
    /\ Do(addStockItem(Cur), Op("addStockItem", Undef, Undef, Undef))

GenerateCaptions ==
    /\ CanStep
    /\ NumClips + 2 <= MaxClips
    /\ Len(tracks) < MaxTracks
    /\ Do(generateCaptions(Cur), Op("generateCaptions", Undef, Undef, Undef))

\* Timeline.vue: pointer-down on a rendered clip or one of its trim handles.
HandleClipMouseDown ==
    /\ CanStep
    /\ timelineMounted
    /\ \E i \in 1..Len(tracks) :
         \E j \in 1..Len(tracks[i].clips), type \in DragTypes, multi \in BOOLEAN :
           LET clip == tracks[i].clips[j]
               ti == getTrackByClipId(Cur, ClipId(clip))
               op == Op("handleClipMouseDown", ClipId(clip), type, multi)
           IN  IF ti # 0 /\ tracks[ti].isLocked
               THEN Do(Cur, op)
               ELSE /\ Step(selectClip(Cur, ClipId(clip), multi), op)
                    /\ draggingClip' = [id |-> ClipId(clip), type |-> type,
                                        originalStart |-> clip.startTime,
                                        originalEnd |-> clip.endTime]
                    /\ listeners' = TRUE
                    /\ UNCHANGED <<canvasVars, timelineVars, gestureVars>>
                    /\ gesture' = [id |-> ClipId(clip), type |-> type,
                                   startTime |-> clip.startTime, endTime |-> clip.endTime,
                                   sourceStartTime |-> Get(clip, "sourceStartTime"),
                                   moved |-> FALSE]

\* Timeline.vue: a pointer-move while the drag's listeners are registered.
HandleClipDrag ==
    /\ CanStep
    /\ listeners
    /\ \E deltaX \in DragPixels :
        LET op == Op("handleClipDrag", deltaX, Undef, Undef)
        IN  IF draggingClip = NoDrag
            THEN Do(Cur, op)
            ELSE /\ Step(dragStep(Cur, draggingClip, deltaX), op)
                 /\ gesture' = [gesture EXCEPT !.moved = @ \/ dragStep(Cur, draggingClip, deltaX) # Cur]
                 /\ UNCHANGED <<canvasVars, draggingClip, listeners, timelineVars, gestureVars>>

\* Timeline.vue: the pointer-up that ends the drag.
HandleClipDragEnd ==
    /\ CanStep
    /\ listeners
    /\ Step(Cur, Op("handleClipDragEnd", Undef, Undef, Undef))
    /\ draggingClip' = NoDrag
    /\ listeners' = FALSE
    /\ UNCHANGED <<canvasVars, gesture, timelineVars, gestureVars>>

\* Timeline.vue: a pointer-down on the ruler starts the playhead drag.
HandleRulerMouseDown ==
    /\ CanStep
    /\ timelineMounted
    /\ videoUrl # Undef
    /\ Step(Cur, Op("handleRulerMouseDown", Undef, Undef, Undef))
    /\ isDraggingPlayhead' = TRUE
    /\ documentListeners' = documentListeners \cup {"ruler"}
    /\ UNCHANGED <<canvasVars, draggingClip, listeners, gesture, timelineVars,
                   canvasMounted, isResizing, isRotating>>

\* Timeline.vue: a pointer-move while the ruler's listeners are registered
\* only moves the component's own progress marker.
HandleRulerMouseMove ==
    /\ CanStep
    /\ "ruler" \in documentListeners
    /\ Do(Cur, Op("handleRulerMouseMove", Undef, Undef, Undef))

\* Timeline.vue: the pointer-up of the playhead drag seeks to the time under
\* the pointer, clamped to [0, duration], and removes the listeners.  With
\* duration 0 the time is 0 / 0: seek assigns NaN to the element's currentTime,
\* which throws, and the handler ends there.
HandleRulerMouseUp ==
    /\ CanStep
    /\ "ruler" \in documentListeners
    /\ \E time \in PlayheadTimes :
        LET op == Op("handleRulerMouseUp", time, Undef, Undef)
        IN  IF ~isDraggingPlayhead \/ (duration = 0 /\ videoElement)
            THEN Do(Cur, op)
            ELSE /\ Step(IF duration = 0 THEN Cur ELSE seek(Cur, Min(time, duration)), op)
                 /\ isDraggingPlayhead' = FALSE
                 /\ documentListeners' = documentListeners \ {"ruler"}
                 /\ UNCHANGED <<canvasVars, draggingClip, listeners, gesture, timelineVars,
                                canvasMounted, isResizing, isRotating>>

ResizeScales == {50, 200}     \* hundredths, within the clamp [0.1, 5]
Rotations == {0, 90}          \* degrees, within [0, 360)

\* Canvas: a pointer-down on a resize handle.
StartResize ==
    /\ CanStep
    /\ canvasMounted
    /\ IF currentVideoClip(Cur)[1] = 0
       THEN Do(Cur, Op("startResize", Undef, Undef, Undef))
       ELSE /\ Step(Cur, Op("startResize", Undef, Undef, Undef))
            /\ isResizing' = TRUE
            /\ documentListeners' = documentListeners \cup {"resize"}
            /\ UNCHANGED <<canvasVars, draggingClip, listeners, gesture, timelineVars,
                           isDraggingPlayhead, canvasMounted, isRotating>>

\* Canvas: a pointer-move while the resize listeners are registered.
OnResize ==
    /\ CanStep
    /\ "resize" \in documentListeners
    /\ \E newScale \in ResizeScales :
        LET loc == currentVideoClip(Cur)
            op == Op("onResize", newScale, Undef, Undef)
        IN  IF ~isResizing \/ loc[1] = 0
            THEN Do(Cur, op)
            ELSE Do(updateClip(Cur, ClipId(tracks[loc[1]].clips[loc[2]]), [scale |-> newScale]), op)

\* Canvas: the pointer-up of the resize.
StopResize ==
    /\ CanStep
    /\ "resize" \in documentListeners
    /\ Step(Cur, Op("stopResize", Undef, Undef, Undef))
    /\ isResizing' = FALSE
    /\ documentListeners' = documentListeners \ {"resize"}
    /\ UNCHANGED <<canvasVars, draggingClip, listeners, gesture, timelineVars,
                   isDraggingPlayhead, canvasMounted, isRotating>>

\* Canvas: a pointer-down on the rotate handle.
StartRotate ==
    /\ CanStep
    /\ canvasMounted
    /\ IF currentVideoClip(Cur)[1] = 0
       THEN Do(Cur, Op("startRotate", Undef, Undef, Undef))
       ELSE /\ Step(Cur, Op("startRotate", Undef, Undef, Undef))
            /\ isRotating' = TRUE
            /\ documentListeners' = documentListeners \cup {"rotate"}
            /\ UNCHANGED <<canvasVars, draggingClip, listeners, gesture, timelineVars,
                           isDraggingPlayhead, canvasMounted, isResizing>>

\* Canvas: a pointer-move while the rotate listeners are registered.
OnRotate ==
    /\ CanStep
    /\ "rotate" \in documentListeners
    /\ \E newRotation \in Rotations :
        LET loc == currentVideoClip(Cur)
            op == Op("onRotate", newRotation, Undef, Undef)
        IN  IF ~isRotating \/ loc[1] = 0
            THEN Do(Cur, op)
            ELSE Do(updateClip(Cur, ClipId(tracks[loc[1]].clips[loc[2]]), [rotation |-> newRotation]), op)

\* Canvas: the pointer-up of the rotation.
StopRotate ==
    /\ CanStep
    /\ "rotate" \in documentListeners
    /\ Step(Cur, Op("stopRotate", Undef, Undef, Undef))
    /\ isRotating' = FALSE
    /\ documentListeners' = documentListeners \ {"rotate"}
    /\ UNCHANGED <<canvasVars, draggingClip, listeners, gesture, timelineVars,
                   isDraggingPlayhead, canvasMounted, isResizing>>

\* The pointer leaves the document during a gesture.  No component listens
\* for it.
PointerLeave ==
    /\ CanStep
    /\ listeners \/ documentListeners # {}
    /\ Do(Cur, Op("pointerLeave", Undef, Undef, Undef))

\* Canvas, onUnmounted: the renderer and the video source are destroyed.
CanvasUnmounted ==
    /\ CanStep
    /\ canvasMounted
    /\ Step(Cur, Op("canvasUnmounted", Undef, Undef, Undef))
    /\ canvasMounted' = FALSE
    /\ textObjects' = <<>>
    /\ videoSprite' = NoSprite
    /\ UNCHANGED <<lastVisibilityUpdate, lastPass, draggingClip, listeners, gesture,
                   timelineVars, isDraggingPlayhead, isResizing, isRotating, documentListeners>>

\* Canvas: the renderer's ticker runs animateTexts before it draws the frame.
CanvasTick ==
    /\ CanStep
    /\ canvasMounted
    /\ textObjects # <<>>
    /\ Step(Cur, Op("animateTexts", Undef, Undef, Undef))
    /\ textObjects' = animateTexts(textObjects, Cur)
    /\ lastPass' = "animation"
    /\ UNCHANGED <<lastVisibilityUpdate, videoSprite, draggingClip, listeners, gesture, timelineVars, gestureVars>>

\* The frame scenario takes every type the panel offers, with durations of
\* 1 s and 2 s out of the slider's range [0.1, 3.0].
TextAnimations ==
    IF scenario = "frame"
    THEN {[animationIn |-> [type |-> "fade", duration |-> TicksPerSecond]]}
         \cup {[animationIn |-> [type |-> ty, duration |-> 2 * TicksPerSecond]] :
                   ty \in {"fade", "slide", "scale", "typewriter"}}
         \cup {[animationOut |-> [type |-> ty, duration |-> 2 * TicksPerSecond]] :
                   ty \in {"fade", "slide", "scale"}}
    ELSE {[animationIn |-> [type |-> "fade", duration |-> DefaultAnimationTicks]],
          [animationIn |-> [type |-> "typewriter", duration |-> DefaultAnimationTicks]],
          [animationOut |-> [type |-> "slide", duration |-> DefaultAnimationTicks]],
          [animationOut |-> [type |-> "scale", duration |-> DefaultAnimationTicks]]}

\* PropertyPanel.vue: the animation of a text clip is set through updateClip.
UpdateTextAnimation ==
    /\ CanStep
    /\ \E clipId \in ClipIds, updates \in TextAnimations :
           Do(updateClip(Cur, clipId, updates), Op("updateClip", clipId, updates, Undef))

Next ==
    \/ AddTrack
    \/ RemoveTrack
    \/ ToggleTrackLock
    \/ ReorderTracks
    \/ AddClip
    \/ RemoveClip
    \/ SplitClip
    \/ SplitSelectedClipsAtPlayhead
    \/ MoveClip
    \/ TrimClipStart
    \/ TrimClipEnd
    \/ SelectClip
    \/ DeselectAll
    \/ SelectAllClips
    \/ CopySelectedClips
    \/ CutSelectedClips
    \/ PasteClips
    \/ DuplicateSelectedClips
    \/ DeleteSelectedClips
    \/ Undo
    \/ Redo
    \/ UpdateTime
    \/ AddText
    \/ AddStockItem
    \/ GenerateCaptions
    \/ Reset
    \/ UpdateClip
    \/ UpdateTextTiming

\* The store's operations, from the freshly created store.
Spec == Init /\ [][Next]_vars

\* Selection, clipboard and history, one step deeper.
InitClipboard == InitStore /\ scenario = "clipboard"

NextClipboard ==
    \/ AddTrack
    \/ AddText
    \/ AddStockItem
    \/ GenerateCaptions
    \/ SelectClip
    \/ SelectAllClips
    \/ CopySelectedClips
    \/ CutSelectedClips
    \/ PasteClips
    \/ DuplicateSelectedClips
    \/ Undo
    \/ Redo
    \/ ToggleTrackLock

SpecClipboard == InitClipboard /\ [][NextClipboard]_vars

\* The timeline's clip drag, with the operations a user reaches around it.
InitDrag == InitStore /\ scenario = "drag"

NextDrag ==
    \/ AddText
    \/ GenerateCaptions
    \/ UpdateTime
    \/ ToggleTrackLock
    \/ HandleClipMouseDown
    \/ HandleClipDrag
    \/ HandleClipDragEnd
    \/ Undo
    \/ Redo

SpecDrag == InitDrag /\ [][NextDrag]_vars

\* Every gesture that registers listeners on document, with pointer-leave and
\* the teardown of the two components.
InitGesture == InitStore /\ scenario = "gesture"

NextGesture ==
    \/ SetVideoFile
    \/ LoadedMetadata
    \/ HandleClipMouseDown
    \/ HandleClipDrag
    \/ HandleClipDragEnd
    \/ HandleRulerMouseDown
    \/ HandleRulerMouseMove
    \/ HandleRulerMouseUp
    \/ StartResize
    \/ OnResize
    \/ StopResize
    \/ StartRotate
    \/ OnRotate
    \/ StopRotate
    \/ PointerLeave
    \/ TimelineUnmounted
    \/ CanvasUnmounted

SpecGesture == InitGesture /\ [][NextGesture]_vars

\* The text layers of the canvas under the two passes that write them.
InitRender == InitStore /\ scenario = "render"

NextRender ==
    \/ AddText
    \/ UpdateTime
    \/ SelectClip
    \/ DeselectAll
    \/ UpdateTextAnimation
    \/ RemoveClip
    \/ CanvasTick

SpecRender == InitRender /\ [][NextRender]_vars

\* Moves with several snap points near the requested start.
InitSnap == InitStore /\ scenario = "snap"

NextSnap ==
    \/ AddTrack
    \/ AddClip
    \/ UpdateTime
    \/ MoveClip
    \/ ZoomOut
    \/ ToggleSnapping

SpecSnap == InitSnap /\ [][NextSnap]_vars

\* The video layer of the canvas over clips that are split and restyled.
InitLayout == InitStore /\ scenario = "layout"

NextLayout ==
    \/ SetVideoFile
    \/ LoadedMetadata
    \/ VideoSeeked
    \/ SplitClip
    \/ UpdateClip
    \/ UpdateTime

SpecLayout == InitLayout /\ [][NextLayout]_vars

\* The frames the canvas draws: texts and captions with their animations.
InitFrame == InitStore /\ scenario = "frame"

NextFrame ==
    \/ AddText
    \/ GenerateCaptions
    \/ UpdateTime
    \/ UpdateTextAnimation
    \/ CanvasTick

SpecFrame == InitFrame /\ [][NextFrame]_vars

\* Moving and trimming clips under every snapping and zoom setting.
InitEdit == InitStore /\ scenario = "edit"

NextEdit ==
    \/ AddTrack
    \/ AddClip
    \/ AddText
    \/ GenerateCaptions
    \/ UpdateTime
    \/ SplitClip
    \/ ToggleSnapping
    \/ ZoomIn
    \/ ZoomOut
    \/ ZoomToFit
    \/ MoveClip
    \/ TrimClipStart
    \/ TrimClipEnd

SpecEdit == InitEdit /\ [][NextEdit]_vars

\* The store called with ids of clips and tracks that are not there.
InitStale == InitStore /\ scenario = "stale"

NextStale ==
    \/ AddTrack
    \/ RemoveTrack
    \/ UpdateTrack
    \/ AddClip
    \/ AddText
    \/ RemoveClip
    \/ UpdateClip
    \/ SplitClip
    \/ MoveClip
    \/ TrimClipStart
    \/ TrimClipEnd
    \/ SelectClip
    \/ DeselectClip
    \/ Undo

SpecStale == InitStale /\ [][NextStale]_vars

\* Loading media and running the playback clock.
InitMedia == InitStore /\ scenario = "media"

NextMedia ==
    \/ SetVideoFile
    \/ LoadedMetadata
    \/ Play
    \/ Pause
    \/ TogglePlay
    \/ Seek
    \/ MediaTimeUpdate
    \/ MediaReachesEnd
    \/ DispatchEnded
    \/ AnimationFrame
    \/ TimelineMounted
    \/ TimelineUnmounted
    \/ AddTrack
    \/ RemoveClip
    \/ Reset

SpecMedia == InitMedia /\ [][NextMedia]_vars

\* Media replaced and projects reset while elements load or play.
InitReload == InitStore /\ scenario = "reload"

NextReload ==
    \/ SetVideoFile
    \/ LoadedMetadata
    \/ SupersededLoadedMetadata
    \/ SupersededLoadError
    \/ Play
    \/ MediaTimeUpdate
    \/ MediaReachesEnd
    \/ DispatchEnded
    \/ Undo
    \/ Redo
    \/ Reset

SpecReload == InitReload /\ [][NextReload]_vars

\* The playback clock alone.  The browser's event loop runs the handler of
\* every queued event, and the handler always takes the event off the queue.
InitPlayback == InitStore /\ scenario = "playback"

NextPlayback ==
    \/ SetVideoFile
    \/ LoadedMetadata
    \/ Play
    \/ Pause
    \/ TogglePlay
    \/ Seek
    \/ MediaTimeUpdate
    \/ MediaReachesEnd
    \/ DispatchEnded
    \/ AnimationFrame
    \/ TimelineMounted
    \/ TimelineUnmounted
    \/ Reset

SpecPlayback == InitPlayback /\ [][NextPlayback]_vars /\ WF_endedQueued(DispatchEnded)

\* The history at its capacity: tracks are added and removed in turn until the
\* history holds maxHistorySize entries, then every operation of the store runs.
InitHist == InitStore /\ scenario = "history"

Filling == scenario = "history" /\ steps = 0 /\ Len(history) < maxHistorySize

FillAddTrack ==
    /\ Filling
    /\ tracks = <<>>
    /\ Commit(addTrack(Cur, "video"))
    /\ lastOp' = [Op("addTrack", "video", Undef, Undef) EXCEPT !.changed = TRUE]
    /\ UNCHANGED <<canvasVars, draggingClip, listeners, gesture, timelineVars, gestureVars, scenario, steps>>

FillRemoveTrack ==
    /\ Filling
    /\ tracks # <<>>
    /\ Commit(removeTrack(Cur, tracks[1].id))
    /\ lastOp' = [Op("removeTrack", tracks[1].id, Undef, Undef) EXCEPT !.changed = TRUE]
    /\ UNCHANGED <<canvasVars, draggingClip, listeners, gesture, timelineVars, gestureVars, scenario, steps>>

NextHist ==
    \/ FillAddTrack
    \/ FillRemoveTrack
    \/ AddTrack
    \/ RemoveTrack
    \/ ReorderTracks
    \/ AddClip
    \/ RemoveClip
    \/ SplitClip
    \/ AddText
    \/ GenerateCaptions
    \/ DeleteSelectedClips
    \/ Undo
    \/ Redo
    \/ Reset

SpecHist == InitHist /\ [][NextHist]_vars

---------------------------------------------------------------------------
\* Properties.

\* C1: after any sequence of edits every clip ends after it starts
\* (endTime > startTime) and its duration equals endTime - startTime.
C1_ClipTimesWellFormed ==
    \A c \in LiveClips :
        /\ c.endTime > c.startTime
        /\ c.duration = c.endTime - c.startTime

\* C3: the selection list and the isSelected flags agree (a clip is flagged
\* exactly when its id is listed), the list holds no id twice, and every
\* listed id is the id of a clip on some track.
C3_SelectionConsistent ==
    /\ \A c \in LiveClips : c.isSelected <=> Includes(selectedClipIds, ClipId(c))
    /\ \A i, j \in 1..Len(selectedClipIds) : i # j => selectedClipIds[i] # selectedClipIds[j]
    /\ \A i \in 1..Len(selectedClipIds) : selectedClipIds[i] \in ClipIds

\* C4: every clip on a track carries a defined id, and no two clips on the
\* tracks carry the same id.
C4_ClipIdsDefinedDistinct ==
    \A j, k \in 1..Len(AllClips(tracks)) :
        /\ ClipId(AllClips(tracks)[j]) # Undef
        /\ j # k => ClipId(AllClips(tracks)[j]) # ClipId(AllClips(tracks)[k])

\* C6: a clip sits on exactly one track, and its trackId names the track
\* whose clip list holds it.
C6_ClipOwnedByItsTrack ==
    \A i \in 1..Len(tracks) :
        \A j \in 1..Len(tracks[i].clips) :
            /\ tracks[i].clips[j].trackId = tracks[i].id
            /\ \A k \in 1..Len(tracks) :
                   k # i => ~\E m \in 1..Len(tracks[k].clips) :
                                /\ ClipId(tracks[k].clips[m]) # Undef
                                /\ ClipId(tracks[k].clips[m]) = ClipId(tracks[i].clips[j])

\* C7: the type a clip carries is the type of the track that holds it,
\* whatever clip data addClip was handed and whatever track moveClip was aimed at.
C7_ClipTypeIsTrackType ==
    \A i \in 1..Len(tracks) :
        \A j \in 1..Len(tracks[i].clips) :
            tracks[i].clips[j].type = tracks[i].type

\* C2: one operation on the freshly created store followed by one undo
\* gives back the tracks and the selection of the fresh store (the round
\* trip of N operations and N undos, for N = 1).
C2_UndoRestoresPreEditState ==
    [][(steps = 1 /\ lastOp.changed /\ lastOp'.name = "undo")
          => (tracks' = FreshStore.tracks /\ selectedClipIds' = FreshStore.selectedClipIds)]_vars

\* C5: splitClip at a time m strictly inside a clip [s, e) leaves the
\* original covering [s, m) and puts right after it, on the same track, a
\* new unselected clip covering [m, e); each has its length as duration, the
\* new clip's source offset is the original's plus m - s, and no other clip
\* of the track changes.
C5_SplitIsPartition ==
    [][lastOp'.name = "splitClip" =>
        LET m == lastOp'.b
            loc == getClipById(Cur, lastOp'.a)
        IN  (loc[1] # 0 /\ tracks[loc[1]].clips[loc[2]].startTime < m
                       /\ m < tracks[loc[1]].clips[loc[2]].endTime) =>
            LET clip == tracks[loc[1]].clips[loc[2]]
                before == tracks[loc[1]].clips
                after == tracks'[loc[1]].clips
                first == after[loc[2]]
                second == after[loc[2] + 1]
            IN  /\ Len(after) = Len(before) + 1
                /\ first = Assign(clip, [endTime |-> m, duration |-> m - clip.startTime])
                /\ first.startTime = clip.startTime
                /\ first.duration = first.endTime - first.startTime
                /\ second.startTime = m
                /\ second.endTime = clip.endTime
                /\ second.duration = second.endTime - second.startTime
                /\ second.sourceStartTime = clip.sourceStartTime + (m - clip.startTime)
                /\ second.isSelected = FALSE
                /\ second.trackId = tracks[loc[1]].id
                /\ RemoveAt(after, loc[2] + 1) = [before EXCEPT ![loc[2]] = first]
                /\ \A i \in 1..Len(tracks) : i # loc[1] => tracks'[i] = tracks[i]]_vars

\* C5 happens: a split has just cut a clip at lastOp.b into two adjacent
\* clips, the second with an advanced source offset.
C5_SplitHappened ==
    /\ lastOp.name = "splitClip"
    /\ lastOp.changed
    /\ \E i \in 1..Len(tracks) :
         \E j \in 1..(Len(tracks[i].clips) - 1) :
            /\ ClipId(tracks[i].clips[j]) = lastOp.a
            /\ tracks[i].clips[j].endTime = lastOp.b
            /\ tracks[i].clips[j + 1].startTime = lastOp.b
            /\ tracks[i].clips[j + 1].sourceStartTime > 0

\* C8: a recording operation that takes effect while entries lie after the
\* cursor (after undo) drops them: afterwards the cursor is on the last
\* entry, that entry equals the live tracks and selection, and redo changes
\* nothing.
C8_RecordingDropsForwardEntries ==
    [][(/\ lastOp'.name \in {"addTrack", "removeTrack", "reorderTracks",
                            "addClip", "removeClip", "splitClip"}
        /\ lastOp'.changed
        /\ historyIndex < Len(history) - 1) =>
        LET post == Cur'
        IN  /\ post.historyIndex = Len(post.history) - 1
            /\ post.history[Len(post.history)] =
                   [tracks |-> post.tracks, selectedClipIds |-> post.selectedClipIds]
            /\ SubSeq(post.history, 1, Len(post.history) - 1) = SubSeq(history, 1, historyIndex + 1)
            /\ redo(post) = post]_vars

\* C8 happens: two tracks were added, the second undone, and a third added;
\* the history holds two entries, not three.
C8_RecordedAfterUndo ==
    /\ lastOp.name = "addTrack"
    /\ lastOp.changed
    /\ Len(tracks) = 2 /\ tracks[1].id = 1 /\ tracks[2].id = 3
    /\ Len(history) = 2
    /\ historyIndex = 1

\* C9: the history never holds more than maxHistorySize entries; the cursor
\* is -1 exactly when the history is empty and otherwise indexes an entry;
\* an operation that pushes onto a full history with the cursor on its last
\* entry evicts from the front, keeps the length, and leaves the cursor on
\* the newest entry.
C9_HistoryBounded ==
    /\ [](/\ Len(history) <= maxHistorySize
          /\ (historyIndex = -1) <=> (Len(history) = 0)
          /\ Len(history) > 0 => (0 <= historyIndex /\ historyIndex < Len(history)))
    /\ [][(/\ Len(history) = maxHistorySize
           /\ historyIndex = maxHistorySize - 1
           /\ lastOp'.name \notin {"undo", "redo", "reset"}
           /\ history' # history) =>
            /\ Len(history') = maxHistorySize
            /\ historyIndex' = maxHistorySize - 1
            /\ \E k \in 1..3 :
                  SubSeq(history', 1, maxHistorySize - k) = SubSeq(history, k + 1, maxHistorySize)]_vars

\* C9 happens: a track was added on a full history, the oldest entry (the
\* first track alone) is gone and the cursor is on the newest entry.
C9_EvictedAtCapacity ==
    /\ steps > 0
    /\ lastOp.name = "addTrack"
    /\ lastOp.changed
    /\ Len(history) = maxHistorySize
    /\ historyIndex = maxHistorySize - 1
    /\ history[1].tracks = <<>>
    /\ history[maxHistorySize].tracks = JSONTracks(tracks)

\* C10: a drag records nothing on pointer-move and exactly one entry on
\* pointer-up, and an undo right after the pointer-up of a drag that changed
\* the clip gives the clip back its pre-drag startTime, endTime and
\* sourceStartTime.
C10_DragIsOneEdit ==
    [][/\ lastOp'.name = "handleClipDrag" => history' = history
       /\ (lastOp'.name = "handleClipDragEnd" /\ gesture.moved) =>
              Len(history') = Len(history) + 1
       /\ (lastOp.name = "handleClipDragEnd" /\ gesture.moved /\ lastOp'.name = "undo") =>
              \E j \in 1..Len(AllClips(tracks')) :
                  LET c == AllClips(tracks')[j]
                  IN  /\ ClipId(c) = gesture.id
                      /\ c.startTime = gesture.startTime
                      /\ c.endTime = gesture.endTime
                      /\ c.sourceStartTime = gesture.sourceStartTime]_vars

\* C11: moveClip, trimClipStart, trimClipEnd, updateClip (also through
\* updateTextTiming) and the selection operations leave the history and its
\* cursor exactly as they were; and whatever a step does, it never rewrites
\* a stored entry: the history is unchanged, or emptied by reset, or the
\* entries up to the cursor are kept as they were (less those evicted from
\* the front) and new entries are appended after them.
C11_EditsWithoutSnapshot ==
    [][/\ lastOp'.name \in {"moveClip", "trimClipStart", "trimClipEnd", "updateClip",
                            "updateTextTiming", "selectClip", "deselectAll", "selectAllClips"}
            => (history' = history /\ historyIndex' = historyIndex)
       /\ lastOp'.name \in {"undo", "redo"} => history' = history
       /\ \/ history' = history
          \/ lastOp'.name = "reset" /\ history' = <<>>
          \/ LET kept == SubSeq(history, 1, historyIndex + 1)
             IN  \E p \in 1..Len(history') :
                    LET r == Len(history') - p
                    IN  /\ r <= Len(kept)
                        /\ SubSeq(history', 1, r) = SubSeq(kept, Len(kept) - r + 1, Len(kept))
                        /\ Len(kept) + p <= maxHistorySize => r = Len(kept)]_vars

\* C11 happens: after an undo a clip was moved; the entry under the cursor
\* still holds the clip where the snapshot saw it, and the entries after the
\* cursor are still there.
C11_MovedAfterUndo ==
    /\ lastOp.name = "moveClip"
    /\ lastOp.changed
    /\ historyIndex >= 0
    /\ historyIndex < Len(history) - 1
    /\ history[historyIndex + 1].tracks # JSONTracks(tracks)

\* C12: deleteSelectedClips, cutSelectedClips, splitSelectedClipsAtPlayhead
\* and duplicateSelectedClips leave every locked track with the clips it had,
\* each with the fields it had (the selection flag aside).
C12_LockedTracksUntouched ==
    [][lastOp'.name \in {"deleteSelectedClips", "cutSelectedClips",
                         "splitSelectedClipsAtPlayhead", "duplicateSelectedClips"} =>
         \A i \in 1..Len(tracks) :
            tracks[i].isLocked =>
               /\ i <= Len(tracks')
               /\ tracks'[i].id = tracks[i].id
               /\ Len(tracks'[i].clips) = Len(tracks[i].clips)
               /\ \A j \in 1..Len(tracks[i].clips) :
                      Assign(tracks'[i].clips[j], [isSelected |-> FALSE])
                         = Assign(tracks[i].clips[j], [isSelected |-> FALSE])]_vars

\* C13: pasteClips leaves every locked track as it was, and adds one clip
\* for each clipboard clip whose type has some unlocked track, on the first
\* unlocked track of that type.
C13_PasteSkipsLockedTracks ==
    [][lastOp'.name = "pasteClips" =>
         /\ Len(tracks') = Len(tracks)
         /\ \A i \in 1..Len(tracks) : tracks[i].isLocked => tracks'[i] = tracks[i]
         /\ \A i \in 1..Len(tracks) :
               LET FirstUnlockedOfType(j) ==
                       /\ clipboard[j].type = tracks[i].type
                       /\ ~tracks[i].isLocked
                       /\ \A k \in 1..(i - 1) :
                              tracks[k].type = tracks[i].type => tracks[k].isLocked
               IN  Len(tracks'[i].clips) - Len(tracks[i].clips)
                      = Cardinality({j \in 1..Len(clipboard) : FirstUnlockedOfType(j)})]_vars

\* C14: pasteClips at playhead p appends to the track it pastes on, for each
\* clipboard clip c placed there and in clipboard order, a clip with
\* startTime p + (c.startTime - m), endTime startTime + c.duration and
\* duration c.duration, where m is the earliest startTime in the clipboard;
\* the clips already on the tracks keep their place and fields.
C14_PastePreservesOffsets ==
    [][(lastOp'.name = "pasteClips" /\ Len(clipboard) > 0) =>
         LET p == currentTime
             m == CHOOSE x \in {clipboard[j].startTime : j \in 1..Len(clipboard)} :
                      \A j \in 1..Len(clipboard) : x <= clipboard[j].startTime
         IN  \A i \in 1..Len(tracks) :
                LET OfType(c) == c.type = tracks[i].type
                    placed == IF TrackIndexByType(tracks, tracks[i].type) = i /\ ~tracks[i].isLocked
                              THEN SelectSeq(clipboard, OfType) ELSE <<>>
                    old == Len(tracks[i].clips)
                IN  /\ Len(tracks'[i].clips) = old + Len(placed)
                    /\ SubSeq(tracks'[i].clips, 1, old) = tracks[i].clips
                    /\ \A k \in 1..Len(placed) :
                          LET new == tracks'[i].clips[old + k]
                              c == placed[k]
                          IN  /\ new.startTime = p + (c.startTime - m)
                              /\ new.endTime = new.startTime + c.duration
                              /\ new.duration = c.duration]_vars

\* C14 happens: two clips with different starts were pasted; the earlier
\* copy starts at the playhead, away from where its source started, and the
\* later copy keeps its distance to it.
C14_PastedTwoClips ==
    /\ lastOp.name = "pasteClips"
    /\ lastOp.changed
    /\ Len(clipboard) = 2
    /\ clipboard[1].startTime < clipboard[2].startTime
    /\ clipboard[1].startTime # currentTime
    /\ \E i \in 1..Len(tracks) :
          /\ Len(tracks[i].clips) >= 2
          /\ LET n == Len(tracks[i].clips)
             IN  /\ tracks[i].clips[n - 1].startTime = currentTime
                 /\ tracks[i].clips[n].startTime - tracks[i].clips[n - 1].startTime
                        = clipboard[2].startTime - clipboard[1].startTime
                 /\ tracks[i].clips[n].duration = clipboard[2].duration

\* C15: the clipboard is a copy of its own.  Only copySelectedClips and
\* cutSelectedClips write it, and what they store is the selected clips as
\* they were at that moment; every other operation (trim, move, update,
\* delete, undo, redo, paste, ...) leaves it as it was, and each clip a
\* paste adds carries the clipboard clip's properties.
C15_ClipboardDecoupled ==
    [][/\ lastOp'.name \in {"copySelectedClips", "cutSelectedClips"}
            => clipboard' = JSONClips(selectedClips(Cur))
       /\ lastOp'.name \notin {"copySelectedClips", "cutSelectedClips"}
            => clipboard' = clipboard
       /\ lastOp'.name = "pasteClips" =>
            \A i \in 1..Len(tracks) :
               \A k \in (Len(tracks[i].clips) + 1)..Len(tracks'[i].clips) :
                  \E j \in 1..Len(clipboard) :
                     \A f \in DOMAIN clipboard[j] \ {"id", "trackId", "startTime", "endTime", "isSelected"} :
                        tracks'[i].clips[k][f] = clipboard[j][f]]_vars

\* C15 happens: a clip was copied, its source was then given another start,
\* and the paste that followed put the clipboard's copy on the track.
C15_PastedAfterSourceEdited ==
    /\ lastOp.name = "pasteClips"
    /\ lastOp.changed
    /\ Len(clipboard) = 1
    /\ ClipId(clipboard[1]) # Undef
    /\ \E i \in 1..Len(tracks) : \E j \in 1..Len(tracks[i].clips) :
          /\ ClipId(tracks[i].clips[j]) = ClipId(clipboard[1])
          /\ tracks[i].clips[j].startTime # clipboard[1].startTime
          /\ j < Len(tracks[i].clips)

\* C16: duplicateSelectedClips appends to every unlocked track, for each
\* selected clip on it and in order, one clone spanning
\* [source.endTime, source.endTime + source.duration); the clips that were
\* there keep their times; afterwards every clone is selected, no clip that
\* was there before is, and selectedClipIds holds the clones' ids and
\* nothing else.
C16_DuplicateAppendsSelectedClones ==
    [][lastOp'.name = "duplicateSelectedClips" =>
         /\ Len(tracks') = Len(tracks)
         /\ \A i \in 1..Len(tracks) :
               LET IsSource(c) == Includes(selectedClipIds, ClipId(c))
                   sources == IF tracks[i].isLocked THEN <<>>
                              ELSE SelectSeq(tracks[i].clips, IsSource)
                   old == Len(tracks[i].clips)
               IN  /\ Len(tracks'[i].clips) = old + Len(sources)
                   /\ \A j \in 1..old :
                         /\ tracks'[i].clips[j].startTime = tracks[i].clips[j].startTime
                         /\ tracks'[i].clips[j].endTime = tracks[i].clips[j].endTime
                         /\ ~tracks'[i].clips[j].isSelected
                         /\ ~Includes(selectedClipIds', ClipId(tracks'[i].clips[j]))
                   /\ \A k \in 1..Len(sources) :
                         LET clone == tracks'[i].clips[old + k]
                         IN  /\ clone.startTime = sources[k].endTime
                             /\ clone.endTime = sources[k].endTime + sources[k].duration
                             /\ clone.isSelected
                             /\ Includes(selectedClipIds', ClipId(clone))
         /\ \A n \in 1..Len(selectedClipIds') :
               \E i \in 1..Len(tracks) :
                  \E k \in (Len(tracks[i].clips) + 1)..Len(tracks'[i].clips) :
                     ClipId(tracks'[i].clips[k]) = selectedClipIds'[n]]_vars

\* C17: moveClip(id, t) leaves the moved clip's endTime - startTime and its
\* duration field as they were and commits a startTime >= 0, for every t,
\* negative ones included, with snapping on and with snapping off, whether the
\* clip stays on its track or goes to the end of another one.
C17_MoveKeepsLength ==
    [][lastOp'.name = "moveClip" =>
         LET loc == getClipById(Cur, lastOp'.a)
         IN  loc[1] # 0 =>
               LET clip == tracks[loc[1]].clips[loc[2]]
                   stays == Len(tracks'[loc[1]].clips) = Len(tracks[loc[1]].clips)
                   to == IF stays THEN loc[1]
                         ELSE CHOOSE i \in 1..Len(tracks) :
                                 Len(tracks'[i].clips) > Len(tracks[i].clips)
                   moved == IF stays THEN tracks'[loc[1]].clips[loc[2]]
                            ELSE tracks'[to].clips[Len(tracks'[to].clips)]
               IN  /\ ClipId(moved) = ClipId(clip)
                   /\ moved.endTime - moved.startTime = clip.endTime - clip.startTime
                   /\ moved.duration = clip.duration
                   /\ moved.startTime >= 0]_vars

\* C17 happens: with snapping off a clip that did not start at 0 was asked to
\* start before 0 and was committed at 0.
C17_MovedBeforeZero ==
    /\ lastOp.name = "moveClip"
    /\ lastOp.changed
    /\ ~isSnappingEnabled
    /\ lastOp.b < 0
    /\ \E i \in 1..Len(tracks) : \E j \in 1..Len(tracks[i].clips) :
          /\ ClipId(tracks[i].clips[j]) = lastOp.a
          /\ tracks[i].clips[j].startTime = 0
          /\ tracks[i].clips[j].endTime > 0

\* C18: moveClip(id, t, destTrackId) takes the clip out of its track, appends
\* it to the destination track and sets its trackId to destTrackId exactly
\* when the destination is another track that exists and whose type is the
\* clip's type; in every other case each track keeps its clips in their
\* places and the clip keeps its trackId.
C18_ReparentIffClipTypeMatches ==
    [][lastOp'.name = "moveClip" =>
         LET loc == getClipById(Cur, lastOp'.a)
             dest == lastOp'.c
             di == TrackIndexById(tracks, dest)
         IN  loc[1] # 0 =>
               LET clip == tracks[loc[1]].clips[loc[2]]
                   matches == /\ dest # Undef
                              /\ di # 0
                              /\ di # loc[1]
                              /\ tracks[di].type = Get(clip, "type")
               IN  IF matches
                   THEN /\ Len(tracks'[loc[1]].clips) = Len(tracks[loc[1]].clips) - 1
                        /\ \A j \in 1..Len(tracks'[loc[1]].clips) :
                              ClipId(tracks'[loc[1]].clips[j])
                                 = ClipId(RemoveAt(tracks[loc[1]].clips, loc[2])[j])
                        /\ Len(tracks'[di].clips) = Len(tracks[di].clips) + 1
                        /\ ClipId(tracks'[di].clips[Len(tracks'[di].clips)]) = ClipId(clip)
                        /\ Get(tracks'[di].clips[Len(tracks'[di].clips)], "trackId") = dest
                   ELSE /\ \A i \in 1..Len(tracks) :
                              /\ Len(tracks'[i].clips) = Len(tracks[i].clips)
                              /\ \A j \in 1..Len(tracks[i].clips) :
                                    ClipId(tracks'[i].clips[j]) = ClipId(tracks[i].clips[j])
                        /\ Get(tracks'[loc[1]].clips[loc[2]], "trackId") = Get(clip, "trackId")]_vars

C20_TrimStartClampsIntoInterval ==
    [][lastOp'.name = "trimClipStart" =>
         LET loc == getClipById(Cur, lastOp'.a)
             t == lastOp'.b
         IN  IF loc[1] = 0 THEN tracks' = tracks
             ELSE LET clip == tracks[loc[1]].clips[loc[2]]
                      new == tracks'[loc[1]].clips[loc[2]]
                      hi == clip.endTime - MinClipTicks
                  IN  /\ 0 <= new.startTime /\ new.startTime <= hi
                      /\ new.startTime = (IF t < 0 THEN 0 ELSE IF t > hi THEN hi ELSE t)
                      /\ new.sourceStartTime
                            = OrElse(Get(clip, "sourceStartTime"), 0) + (new.startTime - clip.startTime)
                      /\ new.endTime = clip.endTime
                      /\ new.duration = new.endTime - new.startTime
                      /\ tracks' = [tracks EXCEPT ![loc[1]].clips[loc[2]] = new]]_vars

\* C20 amended: the new startTime is t clamped into [0, endTime - 0.1 s] when
\* the clip ends at 0.1 s or later, and 0 when it ends before 0.1 s; the
\* shift of sourceStartTime, the untouched endTime and the re-derived
\* duration are as stated.
C20_TrimStartClampsAndShiftsSource ==
    [][lastOp'.name = "trimClipStart" =>
         LET loc == getClipById(Cur, lastOp'.a)
             t == lastOp'.b
         IN  IF loc[1] = 0 THEN tracks' = tracks
             ELSE LET clip == tracks[loc[1]].clips[loc[2]]
                      new == tracks'[loc[1]].clips[loc[2]]
                      hi == clip.endTime - MinClipTicks
                  IN  /\ hi >= 0 => (0 <= new.startTime /\ new.startTime <= hi)
                      /\ new.startTime = (IF hi < 0 \/ t < 0 THEN 0 ELSE IF t > hi THEN hi ELSE t)
                      /\ new.sourceStartTime
                            = OrElse(Get(clip, "sourceStartTime"), 0) + (new.startTime - clip.startTime)
                      /\ new.endTime = clip.endTime
                      /\ new.duration = new.endTime - new.startTime
                      /\ tracks' = [tracks EXCEPT ![loc[1]].clips[loc[2]] = new]]_vars

\* C20 happens: a trim of the start asked for more than endTime - 0.1 s and
\* the clip now starts 0.1 s before its end, its source offset shifted along.
C20_TrimmedToMinimumLength ==
    /\ lastOp.name = "trimClipStart"
    /\ lastOp.changed
    /\ \E i \in 1..Len(tracks) : \E j \in 1..Len(tracks[i].clips) :
          /\ ClipId(tracks[i].clips[j]) = lastOp.a
          /\ lastOp.b > tracks[i].clips[j].endTime - MinClipTicks
          /\ tracks[i].clips[j].startTime = tracks[i].clips[j].endTime - MinClipTicks
          /\ tracks[i].clips[j].sourceStartTime > 0

\* C21: trimClipEnd(id, t) sets the clip's endTime to the larger of t and
\* startTime + 0.1 s, leaves startTime and sourceStartTime as they were and
\* sets duration to endTime - startTime; no other clip changes.
C21_TrimEndKeepsStartAndSource ==
    [][lastOp'.name = "trimClipEnd" =>
         LET loc == getClipById(Cur, lastOp'.a)
             t == lastOp'.b
         IN  IF loc[1] = 0 THEN tracks' = tracks
             ELSE LET clip == tracks[loc[1]].clips[loc[2]]
                      new == tracks'[loc[1]].clips[loc[2]]
                      lo == clip.startTime + MinClipTicks
                  IN  /\ new.endTime = (IF t > lo THEN t ELSE lo)
                      /\ new.startTime = clip.startTime
                      /\ Get(new, "sourceStartTime") = Get(clip, "sourceStartTime")
                      /\ new.duration = new.endTime - new.startTime
                      /\ tracks' = [tracks EXCEPT ![loc[1]].clips[loc[2]] = new]]_vars

\* C21 happens: a trim of the end asked for a time before the clip's start
\* and the clip, which was longer, now ends 0.1 s after its start.
C21_TrimmedEndToMinimumLength ==
    /\ lastOp.name = "trimClipEnd"
    /\ lastOp.changed
    /\ \E i \in 1..Len(tracks) : \E j \in 1..Len(tracks[i].clips) :
          /\ ClipId(tracks[i].clips[j]) = lastOp.a
          /\ lastOp.b < tracks[i].clips[j].startTime
          /\ tracks[i].clips[j].endTime = tracks[i].clips[j].startTime + MinClipTicks
          /\ tracks[i].clips[j].duration = MinClipTicks

\* C22: splitClip(id, m) with an id no clip has, or with m at or before the
\* clip's startTime or at or after its endTime, returns null and leaves the
\* tracks (so the number of clips), the selection, the history and
\* historyIndex as they were.
C22_RejectedSplitChangesNothing ==
    [][lastOp'.name = "splitClip" =>
         LET loc == getClipById(Cur, lastOp'.a)
             m == lastOp'.b
             rejected == \/ loc[1] = 0
                         \/ m <= tracks[loc[1]].clips[loc[2]].startTime
                         \/ m >= tracks[loc[1]].clips[loc[2]].endTime
         IN  rejected =>
               /\ lastOp'.ret = "null"
               /\ tracks' = tracks
               /\ selectedClipIds' = selectedClipIds
               /\ history' = history
               /\ historyIndex' = historyIndex]_vars

\* C22 happens: a clip that is there was asked to split at or after its end,
\* and null came back.
C22_SplitAtEndRejected ==
    /\ lastOp.name = "splitClip"
    /\ lastOp.ret = "null"
    /\ \E i \in 1..Len(tracks) : \E j \in 1..Len(tracks[i].clips) :
          /\ ClipId(tracks[i].clips[j]) = lastOp.a
          /\ lastOp.b = tracks[i].clips[j].endTime

\* C23: removeClip, updateClip, moveClip, trimClipStart, trimClipEnd and
\* deselectClip with an id no clip has, removeTrack and updateTrack with an id
\* no track has, and addClip with a track id no track has, leave tracks,
\* selectedClipIds, projectDuration, history and historyIndex as they were;
\* addClip then returns null.
C23_UnknownIdIsNoOp ==
    [][LET NoClip(id) == \A i \in 1..Len(tracks) : \A j \in 1..Len(tracks[i].clips) :
                            ClipId(tracks[i].clips[j]) # id
           NoTrack(id) == \A i \in 1..Len(tracks) : tracks[i].id # id
           missing == \/ /\ lastOp'.name \in {"removeClip", "updateClip", "moveClip",
                                               "trimClipStart", "trimClipEnd", "deselectClip"}
                         /\ NoClip(lastOp'.a)
                      \/ /\ lastOp'.name \in {"removeTrack", "updateTrack", "addClip"}
                         /\ NoTrack(lastOp'.a)
       IN  missing =>
             /\ tracks' = tracks
             /\ selectedClipIds' = selectedClipIds
             /\ projectDuration' = projectDuration
             /\ history' = history
             /\ historyIndex' = historyIndex
             /\ lastOp'.name = "addClip" => lastOp'.ret = "null"]_vars

\* C23 happens: with clips on the tracks, a selection and a history, a clip
\* that is not there was asked to be removed.
C23_RemovedUnknownClip ==
    /\ lastOp.name = "removeClip"
    /\ lastOp.a = UnknownId
    /\ NumClips > 0
    /\ Len(selectedClipIds) > 0
    /\ Len(history) > 0

\* C24: selectClip(id, addToSelection) with an id no clip has leaves
\* selectedClipIds and every clip's isSelected flag as they were, for
\* addToSelection false as well as true.
C24_SelectUnknownIsNoOp ==
    [][(/\ lastOp'.name = "selectClip"
        /\ \A i \in 1..Len(tracks) : \A j \in 1..Len(tracks[i].clips) :
              ClipId(tracks[i].clips[j]) # lastOp'.a) =>
         /\ selectedClipIds' = selectedClipIds
         /\ tracks' = tracks]_vars

\* C25: undo with historyIndex <= 0 (an empty history included) and redo with
\* historyIndex = history.length - 1 leave tracks, selectedClipIds, history
\* and historyIndex as they were.
C25_UndoRedoAtTheEndsAreNoOps ==
    [][(\/ lastOp'.name = "undo" /\ historyIndex <= 0
        \/ lastOp'.name = "redo" /\ historyIndex = Len(history) - 1) =>
         /\ tracks' = tracks
         /\ selectedClipIds' = selectedClipIds
         /\ history' = history
         /\ historyIndex' = historyIndex]_vars

\* C25 happens: redo was called on the newest entry while the tracks had
\* moved on from what that entry holds.
C25_RedoAtNewestEntry ==
    /\ lastOp.name = "redo"
    /\ historyIndex >= 0
    /\ historyIndex = Len(history) - 1
    /\ history[historyIndex + 1].tracks # JSONTracks(tracks)

\* C26: after deselectAll every clip has isSelected false, selectedClipIds
\* is empty and selectedTrackId is null; the tracks' other fields, the
\* clipboard and the history are as before; and a deselectAll that follows a
\* deselectAll changes nothing at all.
C26_DeselectAllIdempotent ==
    [][lastOp'.name = "deselectAll" =>
         /\ selectedClipIds' = <<>>
         /\ selectedTrackId' = Undef
         /\ Len(tracks') = Len(tracks)
         /\ \A i \in 1..Len(tracks) :
               /\ [tracks'[i] EXCEPT !.clips = <<>>] = [tracks[i] EXCEPT !.clips = <<>>]
               /\ Len(tracks'[i].clips) = Len(tracks[i].clips)
               /\ \A j \in 1..Len(tracks[i].clips) :
                     /\ tracks'[i].clips[j].isSelected = FALSE
                     /\ tracks'[i].clips[j] = [tracks[i].clips[j] EXCEPT !.isSelected = FALSE]
         /\ clipboard' = clipboard
         /\ history' = history
         /\ historyIndex' = historyIndex
         /\ lastOp.name = "deselectAll" => storeVars' = storeVars]_vars

\* C26 happens: deselectAll ran on a store with selected clips, and the clips
\* are still there, none of them selected.
C26_DeselectedSelectedClips ==
    /\ lastOp.name = "deselectAll"
    /\ lastOp.changed
    /\ NumClips > 0
    /\ selectedClipIds = <<>>
    /\ \A i \in 1..Len(tracks) : \A j \in 1..Len(tracks[i].clips) :
          ~tracks[i].clips[j].isSelected

\* C27: setVideoFile on a store without tracks yields exactly one video, one
\* audio and one text track; the setDuration(d) of the metadata-ready call then
\* puts exactly one clip on the video track, spanning [0, d) with
\* sourceStartTime 0, duration d and originalDuration d; a later setVideoFile
\* or setDuration adds no further track or clip.
C27_MediaLoadBuildsOneMainClip ==
    [][/\ (lastOp'.name = "setVideoFile" /\ tracks = <<>>) =>
            /\ Len(tracks') = 3
            /\ tracks'[1].type = "video" /\ tracks'[2].type = "audio" /\ tracks'[3].type = "text"
            /\ \A i \in 1..3 : tracks'[i].clips = <<>>
       /\ (/\ lastOp'.name = "setVideoFile"
           /\ \A type \in TrackTypes : TrackIndexByType(tracks, type) # 0) =>
            tracks' = tracks
       /\ (lastOp'.name = "setDuration" /\ TrackIndexByType(tracks, "video") # 0) =>
            LET ti == TrackIndexByType(tracks, "video")
                d == lastOp'.a
            IN  IF tracks[ti].clips = <<>> /\ videoUrl # Undef
                THEN /\ Len(tracks') = Len(tracks)
                     /\ \A i \in 1..Len(tracks) : i # ti => tracks'[i] = tracks[i]
                     /\ Len(tracks'[ti].clips) = 1
                     /\ tracks'[ti].clips[1].type = "video"
                     /\ tracks'[ti].clips[1].startTime = 0
                     /\ tracks'[ti].clips[1].endTime = d
                     /\ tracks'[ti].clips[1].sourceStartTime = 0
                     /\ tracks'[ti].clips[1].duration = d
                     /\ tracks'[ti].clips[1].originalDuration = d
                ELSE tracks' = tracks]_vars

\* A second file has been loaded and its duration set: the timeline still holds
\* the three tracks and the one clip of the first load.
C27_SecondLoadAddedNothing ==
    /\ lastOp.name = "setDuration"
    /\ objectUrls = 2
    /\ Len(tracks) = 3
    /\ NumClips = 1
    /\ Len(tracks[1].clips) = 1
    /\ tracks[1].clips[1].endTime # lastOp.a

\* C28: when the media reaches its end while the clock is playing, the clock
\* stops: the ended handler leaves isPlaying false and no frame request of the
\* Timeline pending, and it does run.  At most one frame loop is ever active,
\* and none while isPlaying is false.
C28_EndOfMediaStopsClock ==
    /\ [](pendingFrames <= 1)
    /\ [](~isPlaying => pendingFrames = 0)
    /\ [][(endedQueued /\ ~endedQueued') => (~isPlaying' /\ pendingFrames' = 0)]_endedQueued
    /\ ((endedQueued /\ isPlaying) ~> (~isPlaying /\ pendingFrames = 0))

\* The ended handler has run while the clock was playing with the Timeline
\* mounted: the clock is stopped and the frame loop is gone.
C28_StoppedAtEndOfMedia ==
    /\ lastOp.name = "onended"
    /\ lastOp.a = 1
    /\ timelineMounted
    /\ media.ended
    /\ ~isPlaying
    /\ animationFrameId = Undef

\* C29: the document listeners of a gesture are gone after its pointer-up,
\* after a pointer-leave and after the teardown of the component that
\* registered them, and no pointer-move drives a drag of a component that has
\* been torn down.
C29_GestureListenersRemoved ==
    [][/\ lastOp'.name = "handleClipDragEnd" => ~listeners'
       /\ lastOp'.name = "handleRulerMouseUp" => "ruler" \notin documentListeners'
       /\ lastOp'.name = "stopResize" => "resize" \notin documentListeners'
       /\ lastOp'.name = "stopRotate" => "rotate" \notin documentListeners'
       /\ lastOp'.name = "pointerLeave" => (~listeners' /\ documentListeners' = {})
       /\ lastOp'.name = "onUnmounted" => (~listeners' /\ "ruler" \notin documentListeners')
       /\ lastOp'.name = "canvasUnmounted" =>
              ("resize" \notin documentListeners' /\ "rotate" \notin documentListeners')
       /\ (~canvasMounted /\ lastOp'.name \in {"onResize", "onRotate"}) => tracks' = tracks
       /\ (~timelineMounted /\ lastOp'.name = "handleClipDrag") => tracks' = tracks]_vars

\* C30: the state of the text layers is a function of the tracks, the selection
\* and currentTime alone: a pass that runs while these stay as they are, over
\* layers a pass has already written for them, leaves every layer as it is,
\* whichever of the two passes ran before.
C30_TextLayersPureFunction ==
    [][(/\ tracks' = tracks
        /\ selectedClipIds' = selectedClipIds
        /\ currentTime' = currentTime
        /\ lastPass # "none"
        /\ lastPass' # "none") =>
           textObjects' = textObjects]_vars

\* C31: in the frame the canvas draws, which is the state of the layers after
\* the ticker's pass, every text clip of every text track is a visible layer
\* when startTime <= currentTime <= endTime and is not one otherwise.
C31_ActiveTextClipsVisible ==
    lastPass = "animation" =>
        \A i \in 1..Len(tracks) : \A j \in 1..Len(tracks[i].clips) :
            LET c == tracks[i].clips[j]
                active == c.startTime <= currentTime /\ currentTime <= c.endTime
                shown == ClipId(c) \in DOMAIN textObjects /\ textObjects[ClipId(c)].visible
            IN  (tracks[i].type = "text" /\ c.type = "text") => (shown <=> active)

C34_VideoLayerFollowsActiveClip ==
    LET active == {c \in LiveClips : /\ c.type = "video"
                                     /\ c.startTime <= currentTime
                                     /\ currentTime <= c.endTime}
    IN  (videoSprite.present /\ active # {}) =>
            \E c \in active :
                /\ videoSprite.scale = OrElse(Get(c, "scale"), 100)
                /\ videoSprite.x = Get(c, "x")
                /\ videoSprite.y = Get(c, "y")
                /\ videoSprite.rotation = Get(c, "rotation")
                /\ videoSprite.alpha = (IF "opacity" \in DOMAIN c THEN c.opacity ELSE 100)
                /\ videoSprite.flipX = ("flipX" \in DOMAIN c /\ c.flipX)
                /\ videoSprite.flipY = ("flipY" \in DOMAIN c /\ c.flipY)
                /\ videoSprite.filters = FiltersOf(c)

C36_SnapThresholdInTimelinePixels ==
    [][(/\ lastOp'.name = "handleClipDrag"
        /\ draggingClip # NoDrag
        /\ draggingClip.type = "move"
        /\ isSnappingEnabled) =>
         LET loc == getClipById(Cur, draggingClip.id)
             time == Max(0, draggingClip.originalStart + PixelsToTicks(Cur, lastOp'.a))
             others == {c \in LiveClips : ClipId(c) # draggingClip.id}
             points == {0, currentTime} \cup {c.startTime : c \in others}
                                        \cup {c.endTime : c \in others}
             near == {pt \in points :
                        Abs(time - pt) * PIXELS_PER_SECOND_BASE * timelineZoom[1]
                           < snapThreshold * TicksPerSecond * timelineZoom[2]}
         IN  loc[1] # 0 =>
                LET moved == tracks'[loc[1]].clips[loc[2]]
                IN  IF near = {} THEN moved.startTime = time
                    ELSE moved.startTime \in near]_vars

\* C37: after addClip, removeClip, updateClip, moveClip, trimClipEnd,
\* removeTrack, undo and redo, projectDuration is the largest endTime of the
\* clips of all tracks, and 0 when there is no clip.
C37_ProjectDurationIsMaxEnd ==
    [][lastOp'.name \in {"addClip", "removeClip", "updateClip", "moveClip",
                         "trimClipEnd", "removeTrack", "undo", "redo"} =>
         LET ends == {AllClips(tracks')[j].endTime : j \in 1..Len(AllClips(tracks'))}
         IN  /\ \A e \in ends : e <= projectDuration'
             /\ projectDuration' \in ends \cup {0}
             /\ ends = {} => projectDuration' = 0]_vars

\* C38: when two or more ids are selected, selectedClip is the clip whose id
\* is the first of selectedClipIds.
C38_FirstSelectedInSelectionOrder ==
    Len(selectedClipIds) >= 2 =>
        /\ selectedClips(Cur) # <<>>
        /\ ClipId(selectedClip(Cur)) = selectedClipIds[1]

---------------------------------------------------------------------------
\* C39: when a media element is replaced while it still awaits its metadata,
\* its late metadata signal creates no clip: the tracks are as they were, so the
\* initial video clip can only come from the element that is current.
C39_NoClipFromSupersededSource ==
    [][lastOp'.name = "supersededMetadata" => tracks' = tracks]_vars

\* C40: reset leaves tracks, selection and history empty, historyIndex at -1,
\* the clock stopped at 0; and while no new media is loaded, undo, redo and the
\* timeupdate and ended handlers of the earlier media element leave it so.
Destroyed ==
    /\ tracks = <<>>
    /\ selectedClipIds = <<>>
    /\ history = <<>>
    /\ historyIndex = -1
    /\ ~isPlaying
    /\ currentTime = 0

C40_ResetStateStays ==
    [][/\ lastOp'.name = "reset" => Destroyed'
       /\ (/\ Destroyed
           /\ videoUrl = Undef
           /\ lastOp'.name \in {"undo", "redo", "ontimeupdate", "onended"})
          => Destroyed']_vars


====
